---- MODULE Spec2Model ----
(***************************************************************************)
(* Detour hooks of mywr (hook::install / hook::remove, the code generator  *)
(* of the codecave, the relay) over a byte-level model of the hooked       *)
(* function and of the codecaves.                                          *)
(*                                                                         *)
(* Memory is a map from addresses to cells.  A cell is a byte 0..255, or   *)
(* one of two kinds of pseudo cell standing for code that is not copied or *)
(* rewritten by the hook engine: Func(k), the entry of compiled code that  *)
(* runs to its return (k = 0 the rest of the hooked function behind its    *)
(* prologue, k = 1 the function a CALL/JMP of the prologue leads to), and  *)
(* RelayStub(h), the relay preamble of hook h (save_context,               *)
(* push_hook_object, call_relay) followed by relay<>::call.                *)
(* Unmapped marks a cell of a page that is not allocated.                  *)
(***************************************************************************)
EXTENDS Integers, Sequences, FiniteSets, TLC

(* ---------------------------------------------------------------- bounds *)
NHooks == 2
TargetCells == 8
CaveCells == 20
MaxFaults == 1
NThreads == 2
MaxCalls == 2
MaxSpins == 3
MaxArgs == 3
Regions == 16
NPages == 2
NGuards == 2
NBlocks == 3
Granularity == 2
NGranules == 6
PatchCells == 3
NUnits == 2
MaxPatchLen == 2

(* ------------------------------------------------------ program constants *)
kJumpSize == 5
kNopOpcode == 144
kX86JmpMask == 253
kX86CallOpcode == 232
kX86JmpOpcode == 233
kOffsetToUserCode == 5
kUsercodeJumpSize == 5
DEFAULT_MAX_CODE_SIZE == 4096

Hooks == 1..NHooks

(* ------------------------------------------------------------ the layout *)
Target == 4 * DEFAULT_MAX_CODE_SIZE
Callee == 6 * DEFAULT_MAX_CODE_SIZE
SlotBase(i) == IF i = 1 THEN DEFAULT_MAX_CODE_SIZE ELSE (8 + i) * DEFAULT_MAX_CODE_SIZE
Slots == {SlotBase(i) : i \in 1..NHooks}
TargetRange == Target..(Target + TargetCells - 1)
CaveRange(base) == base..(base + CaveCells - 1)
Addrs == TargetRange \cup {Callee} \cup UNION {CaveRange(b) : b \in Slots}

Unmapped == 0 - 1
Func(k) == 256 + k
RelayStub(h) == 512 + h
IsRelayStub(c) == c > 512 /\ c <= 512 + NHooks
IsFunc(c) == c = 256 \/ c = 257

None == <<>>

(* ------------------------------------------------------- byte arithmetic *)
Byte(n, i) == (n \div (256 ^ i)) % 256

\* write<uint32_t>: the little-endian bytes of a 32-bit value; a negative n
\* stands for n + 2^32 (two's complement).
U32LE(n) ==
  IF n >= 0
    THEN <<Byte(n, 0), Byte(n, 1), Byte(n, 2), Byte(n, 3)>>
    ELSE LET m == (0 - n) - 1
         IN <<255 - Byte(m, 0), 255 - Byte(m, 1), 255 - Byte(m, 2), 255 - Byte(m, 3)>>

\* The 32-bit value of four little-endian bytes, as a signed displacement.
S32(bs) ==
  IF bs[4] < 128
    THEN bs[1] + 256 * bs[2] + 65536 * bs[3] + 16777216 * bs[4]
    ELSE 0 - (((255 - bs[1]) + 256 * (255 - bs[2]) + 65536 * (255 - bs[3])
               + 16777216 * (255 - bs[4])) + 1)

S8(b) == IF b < 128 THEN b ELSE b - 256

\* opcode & mask for a mask that clears only bit 1 (0xFD).
AndMask(op, mask) == IF mask = 253 /\ (op \div 2) % 2 = 1 THEN op - 2 ELSE op

(* --------------------------------------------------------- memory access *)
Mapped(m, a) == a \in DOMAIN m /\ m[a] # Unmapped

ReadBytes(m, a, n) == [i \in 1..n |-> m[a + i - 1]]

\* memcpy / typed store of the cells bs at address a.
Poke(m, a, bs) ==
  [x \in DOMAIN m |-> IF x >= a /\ x < a + Len(bs) THEN bs[x - a + 1] ELSE m[x]]

\* memset of n cells at address a.
Fill(m, a, v, n) == [x \in DOMAIN m |-> IF x >= a /\ x < a + n THEN v ELSE m[x]]

get_relative_address(destination, source, size) == (destination - source) - size

restore_absolute_address(relative, base, size) == (relative + base) + size

(* ------------------------------------------- the instruction decoder *)
\* Length of the instruction that starts with opcode byte op, for the
\* opcodes that occur in the modelled prologues and in generated code;
\* 0 when the decoder does not decode it.
InsnLength(op) ==
  CASE op = 85 -> 1            \* push ebp
    [] op = 144 -> 1           \* nop
    [] op = 139 -> 2           \* mov r32, r32 (register form)
    [] op = 106 -> 2           \* push imm8
    [] op = 235 -> 2           \* jmp rel8
    [] op = 131 -> 3           \* sub r32, imm8 (register form)
    [] op = 184 -> 5           \* mov eax, imm32
    [] op = 232 -> 5           \* call rel32
    [] op = 233 -> 5           \* jmp rel32
    [] OTHER -> 0

\* disassembler::disassemble: the decoded instruction at address a.
disassemble(m, a) ==
  LET op == IF Mapped(m, a) THEN m[a] ELSE 0
      len == InsnLength(op)
      ok == len > 0 /\ \A i \in 0..(len - 1) : Mapped(m, a + i) /\ m[a + i] \in 0..255
  IN IF ~ok
       THEN [opcode |-> 0, length |-> 0, relative |-> FALSE, imm |-> 0]
       ELSE [opcode |-> op,
             length |-> len,
             relative |-> op \in {232, 233, 235},
             imm |-> IF op \in {232, 233} THEN S32(ReadBytes(m, a + 1, 4))
                     ELSE IF op = 235 THEN S8(m[a + 1])
                     ELSE 0]

\* instruction::abs: the absolute target of a relative operand.
abs(insn, runtime_address) == (runtime_address + insn.length) + insn.imm

\* utility::get_at_least_n_bytes: whole instructions from code until at
\* least minimal_bytes are covered.
RECURSIVE AtLeastLoop(_, _, _, _)
AtLeastLoop(m, code, minimal_bytes, size) ==
  IF size >= minimal_bytes
    THEN size
    ELSE AtLeastLoop(m, code, minimal_bytes, size + disassemble(m, code + size).length)

get_at_least_n_bytes(m, code, minimal_bytes) == AtLeastLoop(m, code, minimal_bytes, 0)

(* ------------------------------------------------- the code generator *)
\* Variant: every instruction is copied as it is, a relative operand too.
TrampolineInsn_Verbatim(m, address, curr) ==
  ReadBytes(m, address, disassemble(m, address).length)

\* One iteration of the copy loop of generate_trampoline: the bytes emitted
\* at position curr for the instruction at address.
TrampolineInsn(m, address, curr) ==
  LET insn == disassemble(m, address)
  IN IF insn.opcode = kX86CallOpcode
       THEN <<kX86CallOpcode>>
            \o U32LE(get_relative_address(abs(insn, address), curr, insn.length))
       ELSE IF AndMask(insn.opcode, kX86JmpMask) = kX86JmpOpcode
         THEN <<kX86JmpOpcode>>
              \o U32LE(get_relative_address(abs(insn, address), curr, kJumpSize))
         ELSE ReadBytes(m, address, insn.length)

RECURSIVE TrampolineLoop(_, _, _, _, _, _)
TrampolineLoop(m, address, minimal_bytes, size, curr, out) ==
  IF size >= minimal_bytes
    THEN out
    ELSE LET emitted == TrampolineInsn(m, address, curr)
         IN TrampolineLoop(m, address + disassemble(m, address).length, minimal_bytes,
                           size + Len(emitted), curr + Len(emitted), out \o emitted)

\* codegenerator::generate_trampoline, emitting at position curr: the copied
\* prologue and the jump back to start_address + minimal_bytes.
generate_trampoline(m, start_address, minimal_bytes, curr) ==
  LET copied == TrampolineLoop(m, start_address, minimal_bytes, 0, curr, <<>>)
      here == curr + Len(copied)
  IN copied \o <<kX86JmpOpcode>>
     \o U32LE(get_relative_address(start_address + minimal_bytes, here, kJumpSize))

\* Variant: the label of the leading jump is bound before the trampoline is
\* emitted, so the jump leads to the trampoline.
CodecaveImage_LabelAtTrampoline(m, h, buffer, target, size) ==
  <<kX86JmpOpcode>> \o U32LE(get_relative_address(buffer + kJumpSize, buffer, kJumpSize))
  \o generate_trampoline(m, target, size, buffer + kJumpSize) \o <<RelayStub(h)>>

\* The code hook::install emits into a new codecave at buffer for hook h:
\* create_label_also_add_trampoline, then the relay preamble.
CodecaveImage(m, h, buffer, target, size) ==
  LET trampoline == generate_trampoline(m, target, size, buffer + kJumpSize)
      label == (buffer + kJumpSize) + Len(trampoline)
  IN <<kX86JmpOpcode>> \o U32LE(get_relative_address(label, buffer, kJumpSize))
     \o trampoline \o <<RelayStub(h)>>

\* allocate(): a fresh page is zero-filled.
ZeroPage == [i \in 1..CaveCells |-> 0]

\* deallocate(): the page is gone.
NoPage == [i \in 1..CaveCells |-> Unmapped]

(* ---------------------------------------------------- running the code *)
WalkFuel == 16 * (NHooks + 1)

\* The events of one call that enters at pc: the relays and callbacks it
\* passes through, the prologue instructions it executes and the compiled
\* code it ends in.  A relay runs the callback when one is set, and the
\* callback (or the relay itself, without a callback) calls hook.call, which
\* enters at the hook's m_trampoline.
RECURSIVE Walk(_, _, _, _, _)
Walk(m, trampolines, callbacks, pc, fuel) ==
  IF fuel = 0 THEN <<<<"diverge", pc>>>>
  ELSE IF ~Mapped(m, pc) THEN <<<<"fault", pc>>>>
  ELSE LET c == m[pc]
           insn == disassemble(m, pc)
       IN IF IsFunc(c) THEN <<<<"run", c - 256>>>>
          ELSE IF IsRelayStub(c)
            THEN LET h == c - 512
                 IN <<<<"relay", h>>>>
                    \o (IF callbacks[h] THEN <<<<"callback", h>>>> ELSE <<>>)
                    \o Walk(m, trampolines, callbacks, trampolines[h], fuel - 1)
          ELSE IF insn.length = 0 THEN <<<<"fault", pc>>>>
          ELSE IF insn.relative
            THEN Walk(m, trampolines, callbacks, abs(insn, pc), fuel - 1)
          ELSE IF c = kNopOpcode
            THEN Walk(m, trampolines, callbacks, pc + 1, fuel - 1)
          ELSE [i \in 1..insn.length |-> <<"exec", m[pc + i - 1]>>]
               \o Walk(m, trampolines, callbacks, pc + insn.length, fuel - 1)

(* ------------------------------------------------------------ the state *)
VARIABLES
  mem,               \* the process memory: address -> cell
  prot,              \* protection kind of the page of the hooked function
  m_target,          \* hook -> address (0: not set)
  m_size,            \* hook -> prologue length L
  m_installed,       \* hook -> BOOLEAN
  m_trampoline,      \* hook -> address hook.call enters
  m_original_bytes,  \* hook -> saved prologue bytes, or None
  m_usercode_jump,   \* hook -> saved leading jump of the codecave, or None
  m_codecave,        \* hook -> base address of its codecave (0: none)
  m_callback,        \* hook -> BOOLEAN, a callback is set
  original,          \* the code of the hooked function before any hook
  recent,            \* the latest successful install()/remove() calls, newest
                     \* last, each with the target cells found when it began
  installOrder,      \* the installed hooks, by their last install() call
  chain,             \* the hooks that own a codecave, oldest codecave first
  ret,               \* the install()/remove() call that met a failing system
                     \* call and has not been taken by its caller: the call,
                     \* the failure and what it returned
  faults,            \* the number of system calls that have failed
  destroyed,         \* hook -> "no", or how its destructor found it: "hard",
                     \* "soft" (installed, and the removal it made), "idle"
  convention,        \* calling convention of the hooked function type Fun
  return_address,    \* hook -> m_context.return_address
  at,                \* thread -> where it executes
  stk,               \* thread -> the return addresses on its stack, top last
  callers,           \* thread -> the calls it is in, innermost last: the site
                     \* each was made from, and whether it called the target
  reentered,         \* the target has been called from inside a call of it
  scan,              \* hook -> the get_at_least_n_bytes call of its target():
                     \* in progress or not, the size counted so far, the
                     \* iterations that added nothing
  ins,               \* the first install() followed statement by statement:
                     \* its hook, the statement it is at (0: returned), the
                     \* target cells found when it began, what it has done
                     \* so far, the target cells written and not yet flushed
  cpu,               \* one call on its way through the relay preamble: the
                     \* function type (convention, kind of return type,
                     \* number of parameters, where the build passes the
                     \* return-slot pointer), the next instruction, the
                     \* registers and the stack, top first
  place,             \* a hook in the whole 32-bit address space: its target,
                     \* the page VirtualAlloc gave for its codecave, the rel32
                     \* written at the target
  pages,             \* the system's protection constant of each of a few
                     \* neighbouring pages
  guards,            \* scoped_protect objects
  heap,              \* the regions VirtualAlloc has handed out
  blocks,            \* scoped_memory_block objects
  probe              \* one call of a function of the library on inputs of
                     \* its own: its arguments, what it has read, its result

vars == <<mem, prot, m_target, m_size, m_installed, m_trampoline, m_original_bytes,
          m_usercode_jump, m_codecave, m_callback, original, recent, installOrder,
          chain, ret, faults, destroyed, convention, return_address, at, stk,
          callers, reentered, scan, ins, cpu, place, pages, guards, heap, blocks, probe>>

hookVars == <<m_target, m_size, m_installed, m_trampoline, m_original_bytes,
              m_usercode_jump, m_codecave>>

ghostVars == <<recent, installOrder, chain>>

\* The variables of the calls that meet failures, of the lifetime of the
\* hook objects and of the threads that call the hooked function; the calls
\* of Spec leave them alone.
faultVars == <<ret, faults>>

lifeVars == <<destroyed>>

hotVars == <<convention, return_address, at, stk, callers, reentered>>

scanVars == <<scan>>

stepVars == <<ins>>

cpuVars == <<cpu>>

placeVars == <<place>>

raiiVars == <<pages, guards, heap, blocks>>

probeVars == <<probe>>

auxVars == <<faultVars, lifeVars, hotVars, scanVars, stepVars, cpuVars, placeVars, raiiVars, probeVars>>

\* The auxiliary variables other than faultVars, lifeVars, hotVars, scanVars,
\* stepVars.
nonFaultAux == <<lifeVars, hotVars, scanVars, stepVars, cpuVars, placeVars, raiiVars, probeVars>>

nonLifeAux == <<faultVars, hotVars, scanVars, stepVars, cpuVars, placeVars, raiiVars, probeVars>>

nonHotAux == <<faultVars, lifeVars, scanVars, stepVars, cpuVars, placeVars, raiiVars, probeVars>>

nonScanAux == <<faultVars, lifeVars, hotVars, stepVars, cpuVars, placeVars, raiiVars, probeVars>>

nonStepAux == <<faultVars, lifeVars, hotVars, scanVars, cpuVars, placeVars, raiiVars, probeVars>>

Threads == 1..NThreads

NoCall == [op |-> "none", hook |-> 0, fault |-> "none", error |-> "none"]

(* The hooked function's code: a standard frame prologue (L = 6), a        *)
(* hot-patchable prologue (L = 5), a function that begins with a near      *)
(* CALL, and a jump thunk.                                                  *)
Prologues ==
  { <<85, 139, 236, 131, 236, 85>>,
    <<139, 255, 85, 139, 236>>,
    <<kX86CallOpcode>> \o U32LE(get_relative_address(Callee, Target, kJumpSize)),
    <<kX86JmpOpcode>> \o U32LE(get_relative_address(Callee, Target, kJumpSize)) }

\* The memory before any hook exists, for the function code `code`.
InitMem(code) ==
  [a \in Addrs |->
     IF a \in TargetRange
       THEN LET i == (a - Target) + 1
            IN IF i <= Len(code) THEN code[i]
               ELSE IF i = Len(code) + 1 THEN Func(0) ELSE 204
       ELSE IF a = Callee THEN Func(1) ELSE Unmapped]

\* protect::is_executable / is_writeable on a protection kind.
is_executable(kind) == kind \in {"Execute", "ReadExecute", "ReadWriteExecute"}

TargetBytes(m) == ReadBytes(m, Target, TargetCells)

FreeSlots == {b \in Slots : ~Mapped(mem, b)}

\* hook(): the default constructor leaves the target unset; hook(target)
\* sets it and computes m_size on the code found there, one of codes.
ConstructedOn(codes) ==
  /\ \E code \in codes : /\ original = code
                             /\ mem = InitMem(code)
  /\ prot \in {"ReadExecute", "ReadWrite"}
  /\ m_target \in {[h \in Hooks |-> Target],
                   [h \in Hooks |-> IF h = NHooks THEN 0 ELSE Target]}
  /\ m_size = [h \in Hooks |-> IF m_target[h] = 0 THEN 0
                               ELSE get_at_least_n_bytes(mem, m_target[h], kJumpSize)]
  /\ m_installed = [h \in Hooks |-> FALSE]
  /\ m_trampoline = [h \in Hooks |-> 0]
  /\ m_original_bytes = [h \in Hooks |-> None]
  /\ m_usercode_jump = [h \in Hooks |-> None]
  /\ m_codecave = [h \in Hooks |-> 0]
  /\ m_callback = [h \in Hooks |-> FALSE]
  /\ recent = <<>>
  /\ installOrder = <<>>
  /\ chain = <<>>

Constructed == ConstructedOn(Prologues)

\* No call has failed, every hook object exists.
CallsInit ==
  /\ ret = NoCall
  /\ faults = 0
  /\ destroyed = [h \in Hooks |-> "no"]

\* context: return_address{} is zero; no thread has called the target.
HotIdle ==
  /\ return_address = [h \in Hooks |-> <<"none", 0>>]
  /\ at = [t \in Threads |-> [in |-> "main", id |-> 0]]
  /\ stk = [t \in Threads |-> <<>>]
  /\ callers = [t \in Threads |-> <<>>]
  /\ reentered = FALSE

\* No get_at_least_n_bytes call is in progress.
ScanIdle == scan = [h \in Hooks |-> [state |-> "idle", size |-> 0, spins |-> 0]]

\* No install() is being followed statement by statement.
StepIdle == ins = [hook |-> 0, step |-> 0, before |-> <<>>, log |-> <<>>, dirty |-> {}]

\* No call is followed through the instructions of the relay preamble.
CpuIdle == cpu = [pc |-> 0]

\* No hook is followed in the whole address space.
\* No scoped_protect and no scoped_memory_block is followed.
GuardIdle == pages = <<>> /\ guards = <<>>

BlockIdle == heap = {} /\ blocks = <<>>

RaiiIdle == GuardIdle /\ BlockIdle

\* No function is called on inputs of its own.
ProbeIdle == probe = [op |-> "none"]

PlaceIdle ==
  place = [target |-> [hi |-> 0, lo |-> 0], cave |-> [hi |-> 0, lo |-> 0],
           rel |-> [hi |-> 0, lo |-> 0], step |-> "none"]

\* The hooked function of the tests, sum, is MYWR_CDECL.
AuxInit ==
  /\ CallsInit /\ HotIdle /\ convention = "Cdecl"
  /\ ScanIdle /\ StepIdle /\ CpuIdle /\ PlaceIdle /\ RaiiIdle /\ ProbeIdle

Init == Constructed /\ AuxInit

(* ------------------------------------------------------ ghost bookkeeping *)
Without(seq, h) == SelectSeq(seq, LAMBDA x : x # h)

\* The sequences of calls `recent` follows: one call; install a, remove a;
\* install a, install b, and then the removes of a and b in either order.
Fits(seq) ==
  \/ Len(seq) <= 1
  \/ /\ Len(seq) = 2
     /\ seq[1].op = "install"
     /\ \/ seq[2].op = "remove" /\ seq[2].hook = seq[1].hook
        \/ seq[2].op = "install" /\ seq[2].hook # seq[1].hook
  \/ /\ Len(seq) \in {3, 4}
     /\ seq[1].op = "install" /\ seq[2].op = "install" /\ seq[1].hook # seq[2].hook
     /\ \A i \in 3..Len(seq) : seq[i].op = "remove" /\ seq[i].hook \in {seq[1].hook, seq[2].hook}
     /\ Len(seq) = 4 => seq[3].hook # seq[4].hook

RECURSIVE Trim(_)
Trim(seq) == IF Fits(seq) THEN seq ELSE Trim(Tail(seq))

\* `recent` after a successful call: the longest tail that Fits.
Remember(op, h, path) ==
  Trim(Append(recent, [op |-> op, hook |-> h, path |-> path, bytes |-> TargetBytes(mem)]))

(* ---------------------------------------------------------- hook::install *)
\* Variant: the page is looked at before the installed flag.
InstallError_ExecutableFirst(h) ==
  IF ~is_executable(prot) THEN "NotExecutableError"
  ELSE IF m_installed[h] THEN "AlreadyInstalledError"
  ELSE IF m_target[h] = 0 THEN "InvalidAddressError"
  ELSE IF m_size[h] < kJumpSize THEN "NotEnoughSpaceError"
  ELSE IF m_codecave[h] = 0 /\ FreeSlots = {} THEN "AllocateCodecaveError"
  ELSE "Ok"

\* The checks of install() before it changes anything, in their order; the
\* scoped_protect on an executable page is valid, and allocate() fails when
\* no page is left.
InstallError(h) ==
  IF m_installed[h] THEN "AlreadyInstalledError"
  ELSE IF m_target[h] = 0 THEN "InvalidAddressError"
  ELSE IF ~is_executable(prot) THEN "NotExecutableError"
  ELSE IF m_size[h] < kJumpSize THEN "NotEnoughSpaceError"
  ELSE IF m_codecave[h] = 0 /\ FreeSlots = {} THEN "AllocateCodecaveError"
  ELSE "Ok"

\* The codecave of hook h built in the page at buffer.
EmitCodecave(m, h, buffer) ==
  Poke(Poke(m, buffer, ZeroPage), buffer, CodecaveImage(m, h, buffer, m_target[h], m_size[h]))

\* m_original_bytes after the snapshot step: taken only when none is held.
SnapshotPrologue(m, h) ==
  IF m_original_bytes[h] = None THEN ReadBytes(m, m_target[h], m_size[h])
  ELSE m_original_bytes[h]

\* m_trampoline: the destination of a near CALL found at the target, else
\* the code behind the leading jump of the codecave.
TrampolineFor(m, target, buffer) ==
  IF m[target] = kX86CallOpcode
    THEN restore_absolute_address(S32(ReadBytes(m, target + 1, 4)), target, kJumpSize)
    ELSE buffer + kOffsetToUserCode

\* Variant: the jump opcode is written whatever stands at the target.
PatchOpcode_AlwaysJmp(m, target) == Poke(m, target, <<kX86JmpOpcode>>)

\* The opcode byte of the target: left alone when it is a near CALL.
PatchOpcode(m, target) ==
  IF m[target] = kX86CallOpcode THEN m ELSE Poke(m, target, <<kX86JmpOpcode>>)

\* Variant: the displacement is taken without the size of the jump.
PatchOperand_NoSize(m, target, buffer) ==
  Poke(m, target + 1, U32LE(get_relative_address(buffer, target, 0)))

\* Variant: the displacement is taken from the address of the operand.
PatchOperand_FromOperand(m, target, buffer) ==
  Poke(m, target + 1, U32LE(get_relative_address(buffer, target + 1, kJumpSize)))

\* The rel32 of the target, leading to the codecave.
PatchOperand(m, target, buffer) ==
  Poke(m, target + 1, U32LE(get_relative_address(buffer, target, kJumpSize)))

\* Variant: the padding stops one byte early.
PadPrologue_OneShort(m, target, size) ==
  IF size > kJumpSize THEN Fill(m, target + kJumpSize, kNopOpcode, (size - kJumpSize) - 1)
  ELSE m

\* The NOP padding of target[5..L).
PadPrologue(m, target, size) ==
  IF size > kJumpSize THEN Fill(m, target + kJumpSize, kNopOpcode, size - kJumpSize)
  ELSE m

\* The target after the rewrite step of install().
PatchTarget(m, target, size, buffer) ==
  PadPrologue(PatchOperand(PatchOpcode(m, target), target, buffer), target, size)

\* install() returns InstallError(h) and has changed nothing.
InstallRejected(h) ==
  /\ InstallError(h) # "Ok"
  /\ UNCHANGED vars

\* First install: no codecave yet.
InstallFresh(h) ==
  /\ InstallError(h) = "Ok"
  /\ m_codecave[h] = 0
  /\ \E buffer \in FreeSlots :
       /\ mem' = PatchTarget(EmitCodecave(mem, h, buffer), m_target[h], m_size[h], buffer)
       /\ m_codecave' = [m_codecave EXCEPT ![h] = buffer]
       /\ m_trampoline' = [m_trampoline EXCEPT ![h] = TrampolineFor(mem, m_target[h], buffer)]
  /\ m_original_bytes' = [m_original_bytes EXCEPT ![h] = SnapshotPrologue(mem, h)]
  /\ m_installed' = [m_installed EXCEPT ![h] = TRUE]
  /\ recent' = Remember("install", h, "fresh")
  /\ installOrder' = Append(installOrder, h)
  /\ chain' = Append(chain, h)
  /\ UNCHANGED <<prot, m_target, m_size, m_usercode_jump, m_callback, original, auxVars>>

\* Variant: the saved jump is written to the target, as a first install
\* writes its jump.
RestoreUsercodeJump_AtTarget(m, h) == Poke(m, m_target[h], m_usercode_jump[h])

\* The codecave with its saved leading jump written back.
RestoreUsercodeJump(m, h) == Poke(m, m_codecave[h], m_usercode_jump[h])

\* Re-install: the codecave exists (the hook was soft-removed).
Reinstall(h) ==
  /\ InstallError(h) = "Ok"
  /\ m_codecave[h] # 0
  /\ m_usercode_jump[h] # None
  /\ mem' = RestoreUsercodeJump(mem, h)
  /\ m_installed' = [m_installed EXCEPT ![h] = TRUE]
  /\ recent' = Remember("install", h, "reinstall")
  /\ installOrder' = Append(installOrder, h)
  /\ UNCHANGED <<prot, m_target, m_size, m_trampoline, m_original_bytes, m_usercode_jump,
                 m_codecave, m_callback, original, chain, auxVars>>

Install(h) == InstallRejected(h) \/ InstallFresh(h) \/ Reinstall(h)

(* ----------------------------------------------------------- hook::remove *)
RemoveError(h) ==
  IF ~m_installed[h] THEN "AlreadyRemovedError"
  ELSE IF m_target[h] = 0 THEN "InvalidAddressError"
  ELSE "Ok"

\* Variant: remove() always takes unload_hook.
RemovePath_AlwaysHard(m, h) == "hard"

\* Variant: remove() always takes patch_hook.
RemovePath_AlwaysSoft(m, h) == "soft"

\* The decision of remove(): unload_hook ("hard") when the instruction at
\* the target has no relative operand or leads to this hook's codecave or
\* trampoline, else patch_hook ("soft").
RemovePath(m, h) ==
  LET insn == disassemble(m, m_target[h])
  IN IF insn.relative
       THEN IF abs(insn, m_target[h]) = m_codecave[h]
               \/ abs(insn, m_target[h]) = m_trampoline[h]
              THEN "hard"
              ELSE "soft"
       ELSE "hard"

\* Variant: only the bytes of the jump are copied back.
UnloadMem_JumpOnly(m, h) ==
  Poke(Poke(m, m_target[h], SubSeq(m_original_bytes[h], 1, kJumpSize)), m_codecave[h], NoPage)

\* Variant: the codecave is released, the prologue is not copied back.
UnloadMem_KeepsTarget(m, h) == Poke(m, m_codecave[h], NoPage)

\* unload_hook: the saved prologue copied back, the codecave released.
UnloadMem(m, h) ==
  Poke(Poke(m, m_target[h], SubSeq(m_original_bytes[h], 1, m_size[h])), m_codecave[h], NoPage)

\* Variant: the leading jump is saved but not overwritten.
PatchMem_Skipped(m, h) == m

\* patch_hook: the leading jump of the codecave overwritten with NOPs.
PatchMem(m, h) == Fill(m, m_codecave[h], kNopOpcode, kUsercodeJumpSize)

\* remove() returns RemoveError(h) and has changed nothing.
RemoveRejected(h) ==
  /\ RemoveError(h) # "Ok"
  /\ UNCHANGED vars

RemoveHard(h) ==
  /\ RemoveError(h) = "Ok"
  /\ RemovePath(mem, h) = "hard"
  /\ mem' = UnloadMem(mem, h)
  /\ m_original_bytes' = [m_original_bytes EXCEPT ![h] = None]
  /\ m_codecave' = [m_codecave EXCEPT ![h] = 0]
  /\ m_usercode_jump' = [m_usercode_jump EXCEPT ![h] = None]
  /\ m_installed' = [m_installed EXCEPT ![h] = FALSE]
  /\ recent' = Remember("remove", h, "hard")
  /\ installOrder' = Without(installOrder, h)
  /\ chain' = Without(chain, h)
  /\ UNCHANGED <<prot, m_target, m_size, m_trampoline, m_callback, original, auxVars>>

RemoveSoft(h) ==
  /\ RemoveError(h) = "Ok"
  /\ RemovePath(mem, h) = "soft"
  /\ m_usercode_jump' = [m_usercode_jump EXCEPT ![h] = ReadBytes(mem, m_codecave[h], kUsercodeJumpSize)]
  /\ mem' = PatchMem(mem, h)
  /\ m_installed' = [m_installed EXCEPT ![h] = FALSE]
  /\ recent' = Remember("remove", h, "soft")
  /\ installOrder' = Without(installOrder, h)
  /\ UNCHANGED <<prot, m_target, m_size, m_trampoline, m_original_bytes, m_codecave,
                 m_callback, original, chain, auxVars>>

Remove(h) == RemoveRejected(h) \/ RemoveHard(h) \/ RemoveSoft(h)

(* --------------------------------------------------------- hook::redirect *)
\* redirect(callback) with a callback, or with an empty one.
Redirect(h) ==
  /\ m_callback' = [m_callback EXCEPT ![h] = ~m_callback[h]]
  /\ UNCHANGED <<mem, prot, hookVars, original, ghostVars, auxVars>>

Next == \E h \in Hooks : Install(h) \/ Remove(h) \/ Redirect(h)

Spec == Init /\ [][Next]_vars

(* ------------------------------------------------- a call of the target *)
\* What a call of the hooked function does in the current state.
CallTrace == Walk(mem, m_trampoline, m_callback, Target, WalkFuel)

\* What a call of the function did before any hook existed.
OrigTrace == Walk(InitMem(original), m_trampoline, m_callback, Target, WalkFuel)

(* ------------------------------------- calls that meet a failing system call *)
\* The system call the environment makes fail during a call.  install():
\* VirtualProtect of the scoped_protect, VirtualAlloc, the copy of the saved
\* jump into the codecave, the copy of the prologue into the snapshot, the
\* write of the opcode, the write of the rel32; the fill of the padding is
\* InstallPadFails.  remove(): VirtualProtect of the scoped_protect, the copy
\* of the snapshot onto the target, VirtualFree, the copy of the leading jump
\* of the codecave, the fill of the codecave with NOPs.
\* "none": no system call fails, the call is rejected by one of its checks.
InstallFaults ==
  {"none", "protect", "allocate", "reinstall", "snapshot", "opcode", "operand"}

RemoveFaults == {"none", "protect", "restore", "deallocate", "savejump", "nopjump"}

\* std::vector::resize(n) on an empty vector: n zero bytes.
Zeros(n) == [i \in 1..n |-> 0]

Returns(op, h, f, error) == [op |-> op, hook |-> h, fault |-> f, error |-> error]

\* The system call f fails, or none when f = "none"; at most MaxFaults do.
Failure(f) ==
  IF f = "none" THEN UNCHANGED faults
  ELSE faults < MaxFaults /\ faults' = faults + 1

\* No call is in progress; the process has neither crashed nor hung in one.
Running == ret = NoCall

\* The copy loop of generate_trampoline never ends: it meets an instruction
\* the decoder gives length 0 before minimal_bytes are copied.
RECURSIVE TrampolineHangs(_, _, _, _)
TrampolineHangs(m, address, minimal_bytes, size) ==
  IF size >= minimal_bytes THEN FALSE
  ELSE IF disassemble(m, address).length = 0 THEN TRUE
  ELSE TrampolineHangs(m, address + disassemble(m, address).length, minimal_bytes,
                       size + Len(TrampolineInsn(m, address, 0)))

\* What install() of hook h returns when the system call f fails: the
\* checks of InstallError come first; "Undefined" when install() reaches the
\* re-install branch without a saved jump (m_usercode_jump is std::nullopt
\* and is dereferenced); "Hang" when the code generator never returns; "Ok"
\* when the call does not reach the failing call.
InstallFaultError(h, f) ==
  IF InstallError(h) \in {"AlreadyInstalledError", "InvalidAddressError",
                          "NotExecutableError", "NotEnoughSpaceError"}
    THEN InstallError(h)
  ELSE IF f = "protect" THEN "ProtectViolationError"
  ELSE IF m_codecave[h] = 0
    THEN IF f = "allocate" \/ FreeSlots = {} THEN "AllocateCodecaveError"
         ELSE IF TrampolineHangs(mem, m_target[h], m_size[h], 0) THEN "Hang"
         ELSE IF f = "snapshot" /\ m_original_bytes[h] = None THEN "BackupCreatingError"
         ELSE IF f = "opcode" /\ mem[m_target[h]] # kX86CallOpcode THEN "WriteMemoryError"
         ELSE IF f = "operand" THEN "WriteMemoryError"
         ELSE "Ok"
  ELSE IF m_usercode_jump[h] = None THEN "Undefined"
  ELSE IF f = "reinstall" THEN "ReinstallHookError"
  ELSE "Ok"

\* install() of hook h returns an error: a failed check, or the system call
\* f failed (a VirtualProtect that would fail is recorded also when a check
\* rejects the call before it).  What install() did before the failing call stays done: the
\* codecave is allocated and generated, the snapshot vector is resized (and
\* filled, unless the copy is what failed), m_trampoline is set, the opcode
\* is written.
InstallFails(h, f) ==
  LET error == InstallFaultError(h, f)
  IN /\ Running
     /\ error \notin {"Ok", "Undefined", "Hang"}
     /\ ret' = Returns("install", h, f, error)
     /\ f \notin {"none", "protect"} => error # InstallFaultError(h, "none")
     /\ Failure(f)
     /\ IF error \in {"BackupCreatingError", "WriteMemoryError"}
          THEN \E buffer \in FreeSlots :
                 /\ m_codecave' = [m_codecave EXCEPT ![h] = buffer]
                 /\ m_original_bytes' =
                      [m_original_bytes EXCEPT
                         ![h] = IF f = "snapshot" THEN Zeros(m_size[h])
                                ELSE SnapshotPrologue(mem, h)]
                 /\ m_trampoline' =
                      IF f = "snapshot" THEN m_trampoline
                      ELSE [m_trampoline EXCEPT ![h] = TrampolineFor(mem, m_target[h], buffer)]
                 /\ mem' = IF f = "operand"
                             THEN PatchOpcode(EmitCodecave(mem, h, buffer), m_target[h])
                             ELSE EmitCodecave(mem, h, buffer)
          ELSE UNCHANGED <<mem, m_codecave, m_original_bytes, m_trampoline>>
     /\ UNCHANGED <<prot, m_target, m_size, m_installed, m_usercode_jump, m_callback,
                    original, ghostVars, nonFaultAux>>

\* install() of hook h when the fill of the padding fails: the result of
\* fill() is not looked at, install() sets m_installed and returns success.
InstallPadFails(h) ==
  /\ Running
  /\ InstallFaultError(h, "fill") = "Ok"
  /\ m_codecave[h] = 0
  /\ m_size[h] > kJumpSize
  /\ \E buffer \in FreeSlots :
       /\ mem' = PatchOperand(PatchOpcode(EmitCodecave(mem, h, buffer), m_target[h]),
                              m_target[h], buffer)
       /\ m_codecave' = [m_codecave EXCEPT ![h] = buffer]
       /\ m_trampoline' = [m_trampoline EXCEPT ![h] = TrampolineFor(mem, m_target[h], buffer)]
  /\ m_original_bytes' = [m_original_bytes EXCEPT ![h] = SnapshotPrologue(mem, h)]
  /\ m_installed' = [m_installed EXCEPT ![h] = TRUE]
  /\ ret' = Returns("install", h, "fill", "Ok")
  /\ Failure("fill")
  /\ UNCHANGED <<prot, m_target, m_size, m_usercode_jump, m_callback, original, ghostVars, nonFaultAux>>

\* install() of hook h in the re-install branch without a saved jump: the
\* dereference of the empty std::optional is undefined.  The vector read
\* there is empty (copy() returns NullSizeError, install() ReinstallHookError),
\* or its pointers are wild and the copy faults, or they are stale and 5
\* bytes of whatever they lead to land in the codecave.
InstallUndefined(h) ==
  /\ Running
  /\ InstallFaultError(h, "none") = "Undefined"
  /\ \/ /\ ret' = Returns("install", h, "none", "ReinstallHookError")
        /\ UNCHANGED <<mem, m_installed>>
     \/ /\ ret' = Returns("install", h, "none", "Crash")
        /\ UNCHANGED <<mem, m_installed>>
     \/ /\ \E garbage \in {Zeros(kUsercodeJumpSize), [i \in 1..kUsercodeJumpSize |-> 204]} :
             mem' = Poke(mem, m_codecave[h], garbage)
        /\ m_installed' = [m_installed EXCEPT ![h] = TRUE]
        /\ ret' = Returns("install", h, "none", "Ok")
  /\ UNCHANGED <<prot, m_target, m_size, m_trampoline, m_original_bytes, m_usercode_jump,
                 m_codecave, m_callback, original, ghostVars, faults, nonFaultAux>>

\* install() of hook h never returns: the code found at the target does not
\* decode, the code generator loops in the page it was given.
InstallHangs(h) ==
  /\ Running
  /\ InstallFaultError(h, "none") = "Hang"
  /\ \E buffer \in FreeSlots : mem' = Poke(mem, buffer, ZeroPage)
  /\ ret' = Returns("install", h, "none", "Hang")
  /\ UNCHANGED <<prot, hookVars, m_callback, original, ghostVars, faults, nonFaultAux>>

\* What remove() of hook h returns when the system call f fails.
RemoveFaultError(h, f) ==
  IF RemoveError(h) # "Ok" THEN RemoveError(h)
  ELSE IF f = "protect" THEN "ProtectViolationError"
  ELSE IF RemovePath(mem, h) = "hard"
    THEN IF f = "restore" THEN "BackupRestoringError"
         ELSE IF f = "deallocate" THEN "DeallocateCodecaveError"
         ELSE "Ok"
  ELSE IF f = "savejump" THEN "BackupCreatingError"
  ELSE IF f = "nopjump" THEN "UsercodeJumpRemoveError"
  ELSE "Ok"

\* remove() of hook h returns an error.  unload_hook has copied the snapshot
\* back when VirtualFree fails; patch_hook has resized m_usercode_jump when
\* the copy of the jump fails and has filled it when the fill fails.
RemoveFails(h, f) ==
  LET error == RemoveFaultError(h, f)
  IN /\ Running
     /\ error # "Ok"
     /\ ret' = Returns("remove", h, f, error)
     /\ f \notin {"none", "protect"} => error # RemoveFaultError(h, "none")
     /\ Failure(f)
     /\ mem' = IF error = "DeallocateCodecaveError"
                 THEN Poke(mem, m_target[h], SubSeq(m_original_bytes[h], 1, m_size[h]))
                 ELSE mem
     /\ m_usercode_jump' =
          IF error = "BackupCreatingError"
            THEN [m_usercode_jump EXCEPT ![h] = Zeros(kUsercodeJumpSize)]
          ELSE IF error = "UsercodeJumpRemoveError"
            THEN [m_usercode_jump EXCEPT
                    ![h] = ReadBytes(mem, m_codecave[h], kUsercodeJumpSize)]
          ELSE m_usercode_jump
     /\ UNCHANGED <<prot, m_target, m_size, m_installed, m_trampoline, m_original_bytes,
                    m_codecave, m_callback, original, ghostVars, nonFaultAux>>

\* Another part of the process changes the protection of the page of the
\* hooked function.
Reprotect ==
  /\ Running
  /\ prot' = IF prot = "ReadExecute" THEN "ReadWrite" ELSE "ReadExecute"
  /\ UNCHANGED <<mem, hookVars, m_callback, original, ghostVars, auxVars>>

\* The caller takes the result of the call that met the failure.
Resume ==
  /\ ret.error \notin {"none", "Crash", "Hang"}
  /\ ret' = NoCall
  /\ UNCHANGED <<mem, prot, hookVars, m_callback, original, ghostVars, faults, nonFaultAux>>

\* A call that meets no failure, as in Spec.
FaultFree(h) ==
  /\ Running
  /\ \/ /\ InstallFaultError(h, "none") = "Ok"
        /\ InstallFresh(h) \/ Reinstall(h)
     \/ RemoveHard(h)
     \/ RemoveSoft(h)

FaultNext ==
  \/ \E h \in Hooks :
       \/ FaultFree(h)
       \/ \E f \in InstallFaults : InstallFails(h, f)
       \/ InstallPadFails(h)
       \/ InstallUndefined(h)
       \/ InstallHangs(h)
       \/ \E f \in RemoveFaults : RemoveFails(h, f)
  \/ Reprotect
  \/ Resume

FaultSpec == Init /\ [][FaultNext]_vars

(* -------------------------------------------------------- hook::~hook *)
Alive(h) == destroyed[h] = "no"

\* What the remove() call of the destructor of hook h does: unload_hook,
\* patch_hook, or nothing when remove() returns an error.
DestroyPath(m, h) == IF RemoveError(h) # "Ok" THEN "idle" ELSE RemovePath(m, h)

\* Variant: the destructor does not call remove().
DestroyMem_NoRemove(m, h) == m

\* The memory after ~hook(): what remove() made of it.  The members are
\* destroyed after it; the Xbyak::CodeGenerator was given the page as a user
\* buffer and does not free it.
DestroyMem(m, h) ==
  CASE DestroyPath(m, h) = "hard" -> UnloadMem(m, h)
    [] DestroyPath(m, h) = "soft" -> PatchMem(m, h)
    [] OTHER -> m

\* ~hook() of hook h: remove(), its result dropped, then the members go.
Destroy(h) ==
  /\ Alive(h)
  /\ destroyed' = [destroyed EXCEPT ![h] = DestroyPath(mem, h)]
  /\ mem' = DestroyMem(mem, h)
  /\ m_installed' = [m_installed EXCEPT ![h] = FALSE]
  /\ m_original_bytes' = [m_original_bytes EXCEPT ![h] = None]
  /\ m_usercode_jump' = [m_usercode_jump EXCEPT ![h] = None]
  /\ m_codecave' = [m_codecave EXCEPT ![h] = 0]
  /\ recent' = IF DestroyPath(mem, h) = "idle" THEN recent
               ELSE Remember("remove", h, DestroyPath(mem, h))
  /\ installOrder' = Without(installOrder, h)
  /\ chain' = IF DestroyPath(mem, h) = "hard" THEN Without(chain, h) ELSE chain
  /\ UNCHANGED <<prot, m_target, m_size, m_trampoline, m_callback, original, nonLifeAux>>

\* The calls of Spec on the hooks that exist, and their destruction.
LifeNext ==
  \E h \in Hooks :
    \/ Alive(h) /\ Install(h)
    \/ Alive(h) /\ Remove(h)
    \/ Alive(h) /\ Redirect(h)
    \/ Destroy(h)

LifeSpec == Init /\ [][LifeNext]_vars

(* -------------------------------------------- hooks of other owners *)
\* The memory after install() of the hooks 1..k in that order, each for the
\* first time, its codecave in the page SlotBase of its number.
RECURSIVE Stacked(_)
Stacked(k) ==
  IF k = 0 THEN InitMem(original)
  ELSE PatchTarget(EmitCodecave(Stacked(k - 1), k, SlotBase(k)),
                   Target, m_size[k], SlotBase(k))

\* The hooks of Hooks on a target that a further hook object, of another
\* owner, has been on: install() of the hooks 1..NHooks in that order, then
\* install() of the further hook, remove() of hook NHooks (a soft removal,
\* below the further hook) and remove() of the further hook (a hard removal,
\* which frees its codecave and copies its snapshot, the jump into the
\* codecave of hook NHooks, back onto the target).
LeftByFurtherHook ==
  /\ \E code \in Prologues : original = code
  /\ prot = "ReadExecute"
  /\ m_target = [h \in Hooks |-> Target]
  /\ m_size = [h \in Hooks |-> get_at_least_n_bytes(InitMem(original), Target, kJumpSize)]
  /\ m_codecave = [h \in Hooks |-> SlotBase(h)]
  /\ m_installed = [h \in Hooks |-> h # NHooks]
  /\ m_trampoline = [h \in Hooks |-> TrampolineFor(Stacked(h - 1), Target, SlotBase(h))]
  /\ m_original_bytes = [h \in Hooks |-> ReadBytes(Stacked(h - 1), Target, m_size[h])]
  /\ m_usercode_jump =
       [h \in Hooks |-> IF h = NHooks
                          THEN ReadBytes(Stacked(NHooks), SlotBase(h), kUsercodeJumpSize)
                          ELSE None]
  /\ mem = PatchMem(Stacked(NHooks), NHooks)
  /\ m_callback = [h \in Hooks |-> FALSE]
  /\ recent = <<>>
  /\ installOrder = [i \in 1..(NHooks - 1) |-> i]
  /\ chain = [i \in 1..NHooks |-> i]

ChainInit == (Constructed \/ LeftByFurtherHook) /\ AuxInit

\* The calls of Spec, on a target that other hooks may have been on.
ChainSpec == ChainInit /\ [][Next]_vars

(* ------------------------------------------------------------ the hot path *)
\* The conventions call_relay tells apart: Cdecl, and the others, which all
\* take the same branch.
Conventions == {"Cdecl", "Stdcall"}

Loc(in, id) == [in |-> in, id |-> id]

Top(seq) == seq[Len(seq)]

Pop(seq) == SubSeq(seq, 1, Len(seq) - 1)

\* Where control that enters at pc comes to: the relay preamble of a hook
\* ("save"), compiled code ("body"), or nowhere ("lost").
RECURSIVE Reach(_, _, _)
Reach(m, pc, fuel) ==
  IF fuel = 0 \/ ~Mapped(m, pc) THEN Loc("lost", 0)
  ELSE LET c == m[pc]
           insn == disassemble(m, pc)
       IN IF IsFunc(c) THEN Loc("body", c - 256)
          ELSE IF IsRelayStub(c) THEN Loc("save", c - 512)
          ELSE IF insn.length = 0 THEN Loc("lost", 0)
          ELSE IF insn.relative THEN Reach(m, abs(insn, pc), fuel - 1)
          ELSE Reach(m, pc + insn.length, fuel - 1)

\* The calls of the target that have not returned, in threads 1..t.
RECURSIVE InFlightUpTo(_)
InFlightUpTo(t) ==
  IF t = 0 THEN 0
  ELSE Cardinality({i \in 1..Len(callers[t]) : callers[t][i].target}) + InFlightUpTo(t - 1)

InFlight == InFlightUpTo(NThreads)

MaxDepth == MaxCalls * (NHooks + 1)

\* No thread is inside a call of the target.
Quiet == \A t \in Threads : at[t].in = "main"

\* Thread t executes a CALL of pc from the code at site: the return address
\* goes on the stack.
Enter(t, site, target, pc) ==
  /\ Len(callers[t]) < MaxDepth
  /\ stk' = [stk EXCEPT ![t] = Append(@, site)]
  /\ callers' = [callers EXCEPT ![t] = Append(@, [site |-> site, target |-> target])]
  /\ at' = [at EXCEPT ![t] = Reach(mem, pc, WalkFuel)]

\* Control of thread t goes to the return address r: to the site of the call
\* it is in, or astray.
ReturnTo(t, r) ==
  IF r # Top(callers[t]).site
    THEN /\ at' = [at EXCEPT ![t] = Loc("lost", 0)]
         /\ UNCHANGED callers
    ELSE /\ at' = [at EXCEPT ![t] = CASE r[1] = "main" -> Loc("done", 0)
                                      [] r[1] = "callback" -> Loc("relay", r[2])
                                      [] OTHER -> Loc("body", r[2])]
         /\ callers' = [callers EXCEPT ![t] = Pop(@)]

\* Thread t calls the hooked function.
Call(t) ==
  /\ at[t].in = "main"
  /\ InFlight < MaxCalls
  /\ Enter(t, <<"main", t>>, TRUE, Target)
  /\ UNCHANGED <<mem, prot, hookVars, m_callback, original, ghostVars, nonHotAux,
                 convention, return_address, reentered>>

\* The relay preamble of hook h in thread t.  save_context: pop eax; mov
\* [m_context.return_address], eax.  push_hook_object.  call_relay: Cdecl
\* calls the relay, which returns into the codecave; the other conventions
\* push eax back and jump to the relay.
Save(t) ==
  /\ at[t].in = "save"
  /\ return_address' = [return_address EXCEPT ![at[t].id] = Top(stk[t])]
  /\ stk' = [stk EXCEPT ![t] = IF convention = "Cdecl"
                                 THEN Append(Pop(@), <<"cave", at[t].id>>)
                                 ELSE @]
  /\ at' = [at EXCEPT ![t] = Loc("relay", at[t].id)]
  /\ UNCHANGED <<mem, prot, hookVars, m_callback, original, ghostVars, nonHotAux,
                 convention, callers, reentered>>

\* relay<>::call or the callback of hook h calls hook.call: the code at
\* m_trampoline.
HookCall(t) ==
  /\ at[t].in = "relay"
  /\ Enter(t, <<"callback", at[t].id>>, FALSE, m_trampoline[at[t].id])
  /\ UNCHANGED <<mem, prot, hookVars, m_callback, original, ghostVars, nonHotAux,
                 convention, return_address, reentered>>

\* The callback of hook h calls the hooked function itself.
Nested(t) ==
  /\ at[t].in = "relay"
  /\ m_callback[at[t].id]
  /\ InFlight < MaxCalls
  /\ Enter(t, <<"callback", at[t].id>>, TRUE, Target)
  /\ reentered' = TRUE
  /\ UNCHANGED <<mem, prot, hookVars, m_callback, original, ghostVars, nonHotAux,
                 convention, return_address>>

\* The hooked function calls itself.
Recurse(t) ==
  /\ at[t] = Loc("body", 0)
  /\ InFlight < MaxCalls
  /\ Enter(t, <<"body", 0>>, TRUE, Target)
  /\ reentered' = TRUE
  /\ UNCHANGED <<mem, prot, hookVars, m_callback, original, ghostVars, nonHotAux,
                 convention, return_address>>

\* RET of compiled code or of the relay: to the codecave of the hook under
\* Cdecl, after call_relay's CALL; else to the return address on the stack.
Ret(t) ==
  /\ at[t].in \in {"relay", "body"}
  /\ stk' = [stk EXCEPT ![t] = Pop(@)]
  /\ IF at[t].in = "relay" /\ convention = "Cdecl"
       THEN /\ at' = [at EXCEPT ![t] = Loc("leave", at[t].id)]
            /\ UNCHANGED callers
       ELSE ReturnTo(t, Top(stk[t]))
  /\ UNCHANGED <<mem, prot, hookVars, m_callback, original, ghostVars, nonHotAux,
                 convention, return_address, reentered>>

\* call_relay under Cdecl, behind the CALL: add esp, 4; jmp
\* [m_context.return_address].
Leave(t) ==
  /\ at[t].in = "leave"
  /\ ReturnTo(t, return_address[at[t].id])
  /\ UNCHANGED <<mem, prot, hookVars, m_callback, original, ghostVars, nonHotAux,
                 convention, return_address, stk, reentered>>

HotInit ==
  /\ Constructed /\ CallsInit /\ HotIdle /\ convention \in Conventions
  /\ ScanIdle /\ StepIdle /\ CpuIdle /\ PlaceIdle /\ RaiiIdle /\ ProbeIdle

\* Hooks are installed, removed and redirected while no thread is in the
\* hooked function; the threads call it.
HotNext ==
  \/ \E h \in Hooks :
       \/ Quiet /\ Install(h)
       \/ Quiet /\ Remove(h)
       \/ Quiet /\ Redirect(h)
  \/ \E t \in Threads :
       \/ Call(t)
       \/ Save(t)
       \/ HookCall(t)
       \/ Nested(t)
       \/ Recurse(t)
       \/ Ret(t)
       \/ Leave(t)

HotSpec == HotInit /\ [][HotNext]_vars

(* ------------------------------------------------------- hook::target *)
\* Code of the hooked function made of PUSH EBP (55), MOV r32, r32 (8B xx) and
\* the byte FF, which the decoder gives length 0 where an opcode is due.
ScanBytes == {85, 139, 255}

ScanCodes == [1..kJumpSize -> ScanBytes]

\* Hook objects made by hook(), on a function with one of the ScanCodes.
ScanInit ==
  /\ \E code \in ScanCodes : /\ original = code
                             /\ mem = InitMem(code)
  /\ prot = "ReadExecute"
  /\ m_target = [h \in Hooks |-> 0]
  /\ m_size = [h \in Hooks |-> 0]
  /\ m_installed = [h \in Hooks |-> FALSE]
  /\ m_trampoline = [h \in Hooks |-> 0]
  /\ m_original_bytes = [h \in Hooks |-> None]
  /\ m_usercode_jump = [h \in Hooks |-> None]
  /\ m_codecave = [h \in Hooks |-> 0]
  /\ m_callback = [h \in Hooks |-> FALSE]
  /\ recent = <<>>
  /\ installOrder = <<>>
  /\ chain = <<>>
  /\ AuxInit

\* The program is not inside a get_at_least_n_bytes call.
NoScan == \A h \in Hooks : scan[h].state = "idle"

\* hook::target(addr): m_target is set and get_at_least_n_bytes is entered.
SetTarget(h) ==
  /\ NoScan
  /\ m_target[h] = 0
  /\ m_target' = [m_target EXCEPT ![h] = Target]
  /\ scan' = [scan EXCEPT ![h] = [state |-> "scanning", size |-> 0, spins |-> 0]]
  /\ UNCHANGED <<mem, prot, m_size, m_installed, m_trampoline, m_original_bytes,
                 m_usercode_jump, m_codecave, m_callback, original, ghostVars, nonScanAux>>

\* One iteration of the loop of get_at_least_n_bytes, and its return into
\* target() when size has reached minimal_bytes.  An iteration that adds
\* length 0 leaves the loop where it was; they are counted up to MaxSpins.
Decode(h) ==
  /\ scan[h].state = "scanning"
  /\ LET length == disassemble(mem, m_target[h] + scan[h].size).length
         size == scan[h].size + length
     IN IF length = 0
          THEN /\ scan[h].spins < MaxSpins
               /\ scan' = [scan EXCEPT ![h].spins = @ + 1]
               /\ UNCHANGED m_size
          ELSE IF size < kJumpSize
            THEN /\ scan' = [scan EXCEPT ![h].size = size]
                 /\ UNCHANGED m_size
            ELSE /\ scan' = [scan EXCEPT ![h] = [state |-> "idle", size |-> size, spins |-> 0]]
                 /\ m_size' = [m_size EXCEPT ![h] = size]
  /\ UNCHANGED <<mem, prot, m_target, m_installed, m_trampoline, m_original_bytes,
                 m_usercode_jump, m_codecave, m_callback, original, ghostVars, nonScanAux>>

\* target() on the hooks, and the calls of Spec once it has returned.
ScanNext ==
  \E h \in Hooks :
    \/ SetTarget(h)
    \/ Decode(h)
    \/ NoScan /\ Install(h)
    \/ NoScan /\ Remove(h)

ScanSpec == ScanInit /\ [][ScanNext]_vars

(* ------------------------------------- prologues with jumps and calls *)
\* Code of the hooked function with a relative instruction inside its first
\* L bytes: a short jump (EB rel8) to the code behind the prologue, as the
\* last instruction and as the first one; a short jump to an instruction of
\* the prologue itself; a near CALL and a near JMP behind another
\* instruction.
RelocPrologues ==
  { <<85, 139, 236, 235, 0>>,
    <<235, 5, 139, 236, 131, 236, 8>>,
    <<235, 0, 85, 139, 236>>,
    <<85, kX86CallOpcode>> \o U32LE(get_relative_address(Callee, Target + 1, kJumpSize)),
    <<139, 236, kX86JmpOpcode>> \o U32LE(get_relative_address(Callee, Target + 2, kJumpSize)) }

RelocInit == ConstructedOn(Prologues \cup RelocPrologues) /\ AuxInit

\* The calls of Spec, on these functions too.
RelocSpec == RelocInit /\ [][Next]_vars

\* The addresses at which the instructions of the first size bytes of the
\* code at address begin, as the decoder walks them.
RECURSIVE InsnStarts(_, _, _)
InsnStarts(m, address, size) ==
  IF size <= 0 \/ disassemble(m, address).length = 0 THEN {}
  ELSE {address} \cup InsnStarts(m, address + disassemble(m, address).length,
                                 size - disassemble(m, address).length)

(* ------------------------------------ install(), statement by statement *)
\* Variant: the opcode is written before the snapshot is taken.
InstallSteps_OpcodeFirst == <<"opcode", "snapshot", "operand", "pad">>

\* The statements of a first install() behind the code generation, in the
\* order of the source: the copy into m_original_bytes, the write of the
\* opcode (with m_trampoline set before it), the write of the rel32, the fill
\* of the padding.
InstallSteps == <<"snapshot", "opcode", "operand", "pad">>

\* The target cells the statement `name` of install() of hook h writes.
Written(name, h) ==
  CASE name = "opcode" ->
         IF mem[m_target[h]] = kX86CallOpcode THEN {} ELSE {m_target[h]}
    [] name = "operand" -> (m_target[h] + 1)..(m_target[h] + 4)
    [] name = "pad" -> (m_target[h] + kJumpSize)..((m_target[h] + m_size[h]) - 1)
    [] OTHER -> {}

\* The cells write<T>() and fill() flush after the store: the address and
\* the size of the store.
Flushed(name, h) == Written(name, h)

\* No install() is between its statements.
Idle == ins.step = 0

\* install() of hook h up to the snapshot: the checks, the guard, the page
\* for the codecave and the code generated into it.
InstallBegin(h) ==
  /\ Idle
  /\ InstallError(h) = "Ok"
  /\ m_codecave[h] = 0
  /\ \E buffer \in FreeSlots :
       /\ mem' = EmitCodecave(mem, h, buffer)
       /\ m_codecave' = [m_codecave EXCEPT ![h] = buffer]
  /\ ins' = [hook |-> h, step |-> 1, before |-> TargetBytes(mem), log |-> <<>>, dirty |-> {}]
  /\ UNCHANGED <<prot, m_target, m_size, m_installed, m_trampoline, m_original_bytes,
                 m_usercode_jump, m_callback, original, ghostVars, nonStepAux>>

\* The next statement of the install() call in progress.
InstallStep ==
  /\ ins.step \in 1..Len(InstallSteps)
  /\ LET h == ins.hook
         name == InstallSteps[ins.step]
         target == m_target[h]
         buffer == m_codecave[h]
     IN /\ m_original_bytes' =
             IF name = "snapshot"
               THEN [m_original_bytes EXCEPT ![h] = SnapshotPrologue(mem, h)]
               ELSE m_original_bytes
        /\ m_trampoline' =
             IF name = "opcode"
               THEN [m_trampoline EXCEPT ![h] = TrampolineFor(mem, target, buffer)]
               ELSE m_trampoline
        /\ mem' = CASE name = "opcode" -> PatchOpcode(mem, target)
                    [] name = "operand" -> PatchOperand(mem, target, buffer)
                    [] name = "pad" -> PadPrologue(mem, target, m_size[h])
                    [] OTHER -> mem
        /\ ins' = [ins EXCEPT
                     !.step = @ + 1,
                     !.log = @ \o (IF name = "snapshot" THEN <<"snapshot">>
                                   ELSE IF Written(name, h) = {} THEN <<>>
                                   ELSE <<name, "flush">>),
                     !.dirty = (@ \cup Written(name, h)) \ Flushed(name, h)]
  /\ UNCHANGED <<prot, m_target, m_size, m_installed, m_usercode_jump, m_codecave,
                 m_callback, original, ghostVars, nonStepAux>>

\* m_installed = true; return std::nullopt.
InstallEnd ==
  /\ ins.step = Len(InstallSteps) + 1
  /\ m_installed' = [m_installed EXCEPT ![ins.hook] = TRUE]
  /\ recent' = Trim(Append(recent, [op |-> "install", hook |-> ins.hook, path |-> "fresh",
                                    bytes |-> ins.before]))
  /\ installOrder' = Append(installOrder, ins.hook)
  /\ chain' = Append(chain, ins.hook)
  /\ ins' = [ins EXCEPT !.step = 0]
  /\ UNCHANGED <<mem, prot, m_target, m_size, m_trampoline, m_original_bytes,
                 m_usercode_jump, m_codecave, m_callback, original, nonStepAux>>

\* The calls of Spec, a first install() one statement at a time.
OrderNext ==
  \/ \E h \in Hooks :
       \/ InstallBegin(h)
       \/ Idle /\ InstallRejected(h)
       \/ Idle /\ Reinstall(h)
       \/ Idle /\ Remove(h)
       \/ Idle /\ Redirect(h)
  \/ InstallStep
  \/ InstallEnd

OrderSpec == Init /\ [][OrderNext]_vars

(* --------------------------------- the relay preamble, by instruction *)
calling_conventions == {"Cdecl", "Stdcall", "Thiscall", "Fastcall"}

\* The values registers and stack slots hold: the return address of the
\* call, the pointer to the return slot, the hook pointer, the object of a
\* member function, the i-th parameter <<"arg", i>>, the frame of the caller
\* below the arguments, the return address into the codecave; a register
\* that carries no parameter; a register the relay does not read.
ReturnAddress == <<"return", 0>>
ReturnSlot == <<"hidden", 0>>
HookPointer == <<"hook", 0>>
Object == <<"this", 0>>
CallerFrame == <<"caller", 0>>
IntoCodecave == <<"codecave", 0>>
Free == <<"free", 0>>
Unread == <<"unread", 0>>

\* Kinds of return type: void, a type returned in registers (int), a type
\* returned through a return slot of the caller (NonPod of the tests).
ReturnKinds == {"void", "pod", "nonpod"}

\* push_hook_object: sizeof(Ret) > 8 || !is_trivial || !is_standard_layout.
have_hidden_parameter(kind) == kind = "nonpod"

\* The parameters of a function type with n parameters; the first one of a
\* member function is the object.
Params(conv, n) ==
  [i \in 1..n |-> IF conv = "Thiscall" /\ i = 1 THEN Object ELSE <<"arg", i>>]

\* The parameters passed in ECX and EDX, in that order: the object of a
\* thiscall function; the first two of a fastcall function, behind the
\* return-slot pointer when the build passes it in ECX.
InRegisters(conv, kind, n, slot) ==
  CASE conv = "Thiscall" -> SubSeq(Params(conv, n), 1, IF n >= 1 THEN 1 ELSE 0)
    [] conv = "Fastcall" ->
         LET lead == IF have_hidden_parameter(kind) /\ slot = "ecx" THEN <<ReturnSlot>> ELSE <<>>
             all == lead \o Params(conv, n)
         IN SubSeq(all, 1, IF Len(all) >= 2 THEN 2 ELSE Len(all))
    [] OTHER -> <<>>

\* The parameters passed on the stack, first on top.
OnStack(conv, kind, n, slot) ==
  LET regs == Len(SelectSeq(InRegisters(conv, kind, n, slot), LAMBDA x : x # ReturnSlot))
  IN SubSeq(Params(conv, n), regs + 1, n)

\* The i-th register parameter, Free when there is none.
Reg(regs, i) == IF i <= Len(regs) THEN regs[i] ELSE Free

\* The machine at the entry of the hooked function, which the jump at the
\* target and the leading jump path of the codecave hand to the preamble.
AtTarget(conv, kind, n, slot) ==
  LET regs == InRegisters(conv, kind, n, slot)
  IN [conv |-> conv, kind |-> kind, n |-> n, slot |-> slot, pc |-> 1,
      eax |-> Free, ecx |-> Reg(regs, 1), edx |-> Reg(regs, 2),
      stack |-> <<ReturnAddress>>
                \o (IF have_hidden_parameter(kind) /\ slot = "stack" THEN <<ReturnSlot>> ELSE <<>>)
                \o OnStack(conv, kind, n, slot) \o <<CallerFrame>>]

\* save_context, without the stores into m_context that leave registers and
\* stack alone.
save_context == <<"pop eax">>

push_hook_object(conv, kind) ==
  IF kind = "void"
    THEN (IF conv = "Thiscall" THEN <<"push ecx">> ELSE <<>>) \o <<"push hook">>
    ELSE (IF have_hidden_parameter(kind) THEN <<"pop edx">> ELSE <<>>)
         \o (IF conv = "Thiscall" THEN <<"push ecx">> ELSE <<>>)
         \o <<"push hook">>
         \o (IF have_hidden_parameter(kind) THEN <<"push edx">> ELSE <<>>)

call_relay(conv) ==
  IF conv = "Cdecl" THEN <<"call relay">> ELSE <<"push eax", "jmp relay">>

\* The instructions of the preamble for a function type.
Preamble(conv, kind) == save_context \o push_hook_object(conv, kind) \o call_relay(conv)

\* A function type of every convention and kind of return, with 0..MaxArgs
\* parameters (a member function has its object), is called; the return-slot
\* pointer of a fastcall function is passed on the stack or in ECX, as the
\* build has it.
CpuInit ==
  \E conv \in calling_conventions, kind \in ReturnKinds, n \in 0..MaxArgs,
     slot \in {"stack", "ecx"} :
    /\ conv = "Thiscall" => n >= 1
    /\ slot = "ecx" => conv = "Fastcall" /\ have_hidden_parameter(kind)
    /\ cpu = AtTarget(conv, kind, n, slot)

\* The call is in the preamble.
InPreamble == cpu.pc \in 1..Len(Preamble(cpu.conv, cpu.kind))

\* The next instruction of the preamble.
Exec ==
  /\ cpu.pc > 0
  /\ InPreamble
  /\ LET insn == Preamble(cpu.conv, cpu.kind)[cpu.pc]
     IN cpu' =
          CASE insn = "pop eax" ->
                 [cpu EXCEPT !.pc = @ + 1, !.eax = Head(cpu.stack), !.stack = Tail(@)]
            [] insn = "pop edx" ->
                 [cpu EXCEPT !.pc = @ + 1, !.edx = Head(cpu.stack), !.stack = Tail(@)]
            [] insn = "push ecx" -> [cpu EXCEPT !.pc = @ + 1, !.stack = <<cpu.ecx>> \o @]
            [] insn = "push edx" -> [cpu EXCEPT !.pc = @ + 1, !.stack = <<cpu.edx>> \o @]
            [] insn = "push eax" -> [cpu EXCEPT !.pc = @ + 1, !.stack = <<cpu.eax>> \o @]
            [] insn = "push hook" -> [cpu EXCEPT !.pc = @ + 1, !.stack = <<HookPointer>> \o @]
            [] insn = "call relay" -> [cpu EXCEPT !.pc = @ + 1, !.stack = <<IntoCodecave>> \o @]
            [] OTHER -> [cpu EXCEPT !.pc = @ + 1]
  /\ UNCHANGED <<mem, prot, hookVars, m_callback, original, ghostVars,
                 faultVars, lifeVars, hotVars, scanVars, stepVars, placeVars, raiiVars, probeVars>>

\* What relay<>::call expects at its entry for the function type: its own
\* parameters are the hook (a one-member struct for fastcall, passed on the
\* stack) and then those of the hooked function, all on the stack but the
\* register parameters of fastcall; the relay of a thiscall function is
\* stdcall.  The return address is on top, into the codecave for cdecl.
AtRelay(conv, kind, n, slot) ==
  [ecx |-> IF conv = "Fastcall" THEN Reg(InRegisters(conv, kind, n, slot), 1) ELSE Unread,
   edx |-> IF conv = "Fastcall" THEN Reg(InRegisters(conv, kind, n, slot), 2) ELSE Unread,
   stack |-> <<IF conv = "Cdecl" THEN IntoCodecave ELSE ReturnAddress>>
             \o (IF have_hidden_parameter(kind) /\ slot = "stack" THEN <<ReturnSlot>> ELSE <<>>)
             \o <<HookPointer>>
             \o (IF conv = "Fastcall" THEN OnStack(conv, kind, n, slot) ELSE Params(conv, n))
             \o <<CallerFrame>>]

ConstructedIdle == ConstructedOn(Prologues) /\ CallsInit /\ HotIdle /\ convention = "Cdecl"
                   /\ ScanIdle /\ StepIdle

RelayInit == ConstructedIdle /\ CpuInit /\ PlaceIdle /\ RaiiIdle /\ ProbeIdle

\* The hooks as constructed on one function, for what does not use them.
HooksAside ==
  /\ ConstructedIdle /\ CpuIdle
  /\ original = <<139, 255, 85, 139, 236>>
  /\ prot = "ReadExecute"
  /\ m_target = [h \in Hooks |-> Target]

RelaySpec == RelayInit /\ [][Exec]_vars

(* ------------------------------------- the codecave in the address space *)
\* address_t of the 32-bit build is uint32_t.  An address is written as its
\* two 16-bit halves, [hi, lo], and the arithmetic is that of uint32_t:
\* modulo 2^32, with the carry from the low half into the high one.
Half == 2 ^ 16

Address32(hi, lo) == [hi |-> hi, lo |-> lo]

Add32(a, b) ==
  Address32((a.hi + b.hi + ((a.lo + b.lo) \div Half)) % Half, (a.lo + b.lo) % Half)

Sub32(a, b) ==
  Address32((a.hi - b.hi - (IF a.lo < b.lo THEN 1 ELSE 0)) % Half, (a.lo - b.lo) % Half)

Below32(a, b) == a.hi < b.hi \/ (a.hi = b.hi /\ a.lo < b.lo)

\* The address space in Regions regions; a function, or the page of a
\* codecave, a little behind the start of each but the first.
RegionSize == Half \div Regions

PlaceAddrs == {Address32(k * RegionSize, lo) : k \in 1..(Regions - 1), lo \in {0, 16}}

\* Variant: the size of the jump is not subtracted.
Rel32_NoSize(destination, source) == Sub32(destination, source)

\* The operand install() writes with write<uint32_t>: the value of
\* get_relative_address(codecave, target, kJumpSize), an address_t.
Rel32(destination, source) == Sub32(Sub32(destination, source), Address32(0, kJumpSize))

\* Where the processor continues behind a near jump at source with operand
\* rel: EIP is 32 bits wide.
JumpDestination(source, rel) == Add32(Add32(source, Address32(0, kJumpSize)), rel)

\* Two addresses are less than 2 GiB apart.
Within2GiB(a, b) ==
  LET d == IF Below32(a, b) THEN Sub32(b, a) ELSE Sub32(a, b)
  IN  d.hi < Half \div 2

\* A hook object on a function anywhere in the address space.
NoAddress == Address32(0, 0)

PlaceInit ==
  \E t \in PlaceAddrs : place = [target |-> t, cave |-> NoAddress, rel |-> NoAddress, step |-> "new"]

\* install(): allocate(DEFAULT_MAX_CODE_SIZE) is VirtualAlloc(nullptr, ...),
\* the system picks the page.
PlaceAllocate ==
  /\ place.step = "new"
  /\ \E b \in PlaceAddrs \ {place.target} :
       place' = [place EXCEPT !.cave = Address32(b.hi, 0), !.step = "allocated"]
  /\ UNCHANGED <<mem, prot, hookVars, m_callback, original, ghostVars,
                 faultVars, lifeVars, hotVars, scanVars, stepVars, cpuVars, raiiVars, probeVars>>

\* install(): the rel32 written at the target.
PlaceWrite ==
  /\ place.step = "allocated"
  /\ place' = [place EXCEPT !.rel = Rel32(place.cave, place.target), !.step = "patched"]
  /\ UNCHANGED <<mem, prot, hookVars, m_callback, original, ghostVars,
                 faultVars, lifeVars, hotVars, scanVars, stepVars, cpuVars, raiiVars, probeVars>>

\* remove(): unload_hook releases the page.
PlaceRelease ==
  /\ place.step = "patched"
  /\ place' = [place EXCEPT !.cave = NoAddress, !.rel = NoAddress, !.step = "new"]
  /\ UNCHANGED <<mem, prot, hookVars, m_callback, original, ghostVars,
                 faultVars, lifeVars, hotVars, scanVars, stepVars, cpuVars, raiiVars, probeVars>>

PlaceNext == PlaceAllocate \/ PlaceWrite \/ PlaceRelease

PlaceStart == HooksAside /\ PlaceInit /\ RaiiIdle /\ ProbeIdle

PlaceSpec == PlaceStart /\ [][PlaceNext]_vars

(* --------------------------------------------------------- scoped_protect *)
\* The protection constants of the system, by name.  NoConstant is the 0 that
\* from_protection_constant gives for Write and None, and that old_protection
\* holds when VirtualProtect has failed; MemFree stands for a page that is not
\* committed.
NoConstant == "0"

MemFree == "MEM_FREE"

\* Variant: PAGE_EXECUTE_READ is taken for readable only.
to_protection_constant_ExecuteReadAsRead(protect) ==
  CASE protect = "PAGE_NOACCESS" -> "NoAccess"
    [] protect = "PAGE_READONLY" -> "Read"
    [] protect = "PAGE_READWRITE" -> "ReadWrite"
    [] protect = "PAGE_EXECUTE" -> "Execute"
    [] protect = "PAGE_EXECUTE_READ" -> "Read"
    [] protect = "PAGE_EXECUTE_READWRITE" -> "ReadWriteExecute"
    [] OTHER -> "None"

to_protection_constant(protect) ==
  CASE protect = "PAGE_NOACCESS" -> "NoAccess"
    [] protect = "PAGE_READONLY" -> "Read"
    [] protect = "PAGE_READWRITE" -> "ReadWrite"
    [] protect = "PAGE_EXECUTE" -> "Execute"
    [] protect = "PAGE_EXECUTE_READ" -> "ReadExecute"
    [] protect = "PAGE_EXECUTE_READWRITE" -> "ReadWriteExecute"
    [] OTHER -> "None"

from_protection_constant(protect) ==
  CASE protect = "NoAccess" -> "PAGE_NOACCESS"
    [] protect = "Read" -> "PAGE_READONLY"
    [] protect = "Execute" -> "PAGE_EXECUTE"
    [] protect = "ReadWrite" -> "PAGE_READWRITE"
    [] protect = "ReadExecute" -> "PAGE_EXECUTE_READ"
    [] protect = "ReadWriteExecute" -> "PAGE_EXECUTE_READWRITE"
    [] OTHER -> NoConstant

\* The bits of a value of enum class protection.
Flags(protect) ==
  CASE protect = "None" -> {"None"}
    [] protect = "NoAccess" -> {"NoAccess"}
    [] protect = "Read" -> {"Read"}
    [] protect = "Write" -> {"Write"}
    [] protect = "Execute" -> {"Execute"}
    [] protect = "ReadWrite" -> {"Read", "Write"}
    [] protect = "ReadExecute" -> {"Read", "Execute"}
    [] protect = "ReadWriteExecute" -> {"Read", "Write", "Execute"}

\* (current & k) == k
Includes(current, k) == Flags(k) \subseteq Flags(current)

\* Addresses and sizes of this section are in pages: page p of 1..NPages, 0
\* the null address; a range of n pages from page a.
PageRange(a, n) == a..(a + n - 1)

\* VirtualProtect succeeds on a range of committed pages and a protection
\* constant of the system.
VirtualProtectOk(pg, a, n, new_protect) ==
  /\ new_protect # NoConstant
  /\ n > 0
  /\ PageRange(a, n) \subseteq 1..NPages
  /\ \A p \in PageRange(a, n) : pg[p] # MemFree

\* set_protect: the pages after VirtualProtect, and the old protection of the
\* first page of the range as a protection kind.
set_protect(pg, a, new_protect, n) ==
  LET constant == from_protection_constant(new_protect)
      ok == VirtualProtectOk(pg, a, n, constant)
  IN  [pages |-> [p \in 1..NPages |-> IF ok /\ p \in PageRange(a, n) THEN constant ELSE pg[p]],
       old |-> to_protection_constant(IF ok THEN pg[a] ELSE NoConstant)]

get_protect(pg, a) == to_protection_constant(pg[a])

\* What the pages may be before any guard: read-only data, code, a data
\* section of an image not yet written to (copy on write), nothing.
PageStates == {"PAGE_READONLY", "PAGE_EXECUTE_READ", "PAGE_WRITECOPY", MemFree}

\* The protection kinds guards are constructed with.
GuardKinds == {"ReadWriteExecute", "Read", "Write"}

\* A scoped_protect object: its three members, and for the properties what
\* it was constructed with (kind, range), whether its VirtualProtect
\* succeeded (changed), what get_protect gave for each page before (prior),
\* whether it has been moved from (moved), and whether its destructor called
\* set_protect (restored).
NoGuard ==
  [state |-> "none", m_address |-> 0, m_size |-> 0, m_protect |-> "None",
   kind |-> "None", range |-> {}, changed |-> FALSE, prior |-> <<>>,
   moved |-> FALSE, restored |-> FALSE]

GuardIds == 1..NGuards

valid(g) == g.m_address # 0 /\ g.m_protect # "None"

GuardInit ==
  /\ pages \in [1..NPages -> PageStates]
  /\ guards = [g \in GuardIds |-> NoGuard]

\* scoped_protect(address, protect, size).  With a null address m_protect is
\* left uninitialized.
GuardConstruct(g) ==
  /\ guards[g].state = "none"
  /\ \E a \in 0..NPages, k \in GuardKinds, n \in 1..NPages :
       LET r == set_protect(pages, a, k, n)
       IN  \E junk \in {"None", "ReadWrite"} :
             /\ a # 0 => junk = "None"
             /\ pages' = IF a # 0 THEN r.pages ELSE pages
             /\ guards' = [guards EXCEPT ![g] =
                  [state |-> "live", m_address |-> a, m_size |-> n,
                   m_protect |-> IF a # 0 THEN r.old ELSE junk,
                   kind |-> k, range |-> PageRange(a, n),
                   changed |-> a # 0 /\ VirtualProtectOk(pages, a, n, from_protection_constant(k)),
                   prior |-> [p \in 1..NPages |-> get_protect(pages, p)],
                   moved |-> FALSE, restored |-> FALSE]]
  /\ UNCHANGED <<mem, prot, hookVars, m_callback, original, ghostVars,
                 faultVars, lifeVars, hotVars, scanVars, stepVars, cpuVars, placeVars, probeVars,
                 heap, blocks>>

\* ~scoped_protect()
GuardDrop(g) ==
  /\ guards[g].state = "live"
  /\ pages' = IF valid(guards[g])
              THEN set_protect(pages, guards[g].m_address, guards[g].m_protect, guards[g].m_size).pages
              ELSE pages
  /\ guards' = [guards EXCEPT ![g].state = "gone", ![g].restored = valid(guards[g])]
  /\ UNCHANGED <<mem, prot, hookVars, m_callback, original, ghostVars,
                 faultVars, lifeVars, hotVars, scanVars, stepVars, cpuVars, placeVars, probeVars,
                 heap, blocks>>

\* scoped_protect(scoped_protect&& rhs): the move constructor of address
\* leaves 0 in rhs.m_address.
GuardMoveConstruct(rhs, g) ==
  /\ guards[rhs].state = "live" /\ guards[g].state = "none"
  /\ guards' = [guards EXCEPT ![g] = [guards[rhs] EXCEPT !.moved = FALSE],
                              ![rhs].m_address = 0, ![rhs].moved = TRUE]
  /\ UNCHANGED <<mem, prot, hookVars, m_callback, original, ghostVars,
                 faultVars, lifeVars, hotVars, scanVars, stepVars, cpuVars, placeVars, probeVars,
                 pages, heap, blocks>>

\* Variant: the move assignment of address swaps the two addresses.
GuardMoveAssign_Swap(rhs, g) ==
  /\ rhs # g
  /\ guards[rhs].state = "live" /\ guards[g].state = "live"
  /\ guards' = [guards EXCEPT ![g] = [guards[rhs] EXCEPT !.moved = FALSE],
                              ![rhs].m_address = guards[g].m_address, ![rhs].moved = TRUE]
  /\ UNCHANGED <<mem, prot, hookVars, m_callback, original, ghostVars,
                 faultVars, lifeVars, hotVars, scanVars, stepVars, cpuVars, placeVars, probeVars,
                 pages, heap, blocks>>

\* operator=(scoped_protect&& rhs): the move assignment of address takes the
\* address of rhs and leaves 0 there; m_protect and m_size are copied.  What
\* the destination held is overwritten.
GuardMoveAssign(rhs, g) ==
  /\ rhs # g
  /\ guards[rhs].state = "live" /\ guards[g].state = "live"
  /\ guards' = [guards EXCEPT ![g] = [guards[rhs] EXCEPT !.moved = FALSE],
                              ![rhs].m_address = 0, ![rhs].moved = TRUE]
  /\ UNCHANGED <<mem, prot, hookVars, m_callback, original, ghostVars,
                 faultVars, lifeVars, hotVars, scanVars, stepVars, cpuVars, placeVars, probeVars,
                 pages, heap, blocks>>

GuardNext ==
  \/ \E g \in GuardIds : GuardConstruct(g)
  \/ \E g \in GuardIds : GuardDrop(g)
  \/ \E rhs \in GuardIds, g \in GuardIds : GuardMoveConstruct(rhs, g)
  \/ \E rhs \in GuardIds, g \in GuardIds : GuardMoveAssign(rhs, g)

GuardStart == HooksAside /\ PlaceIdle /\ BlockIdle /\ ProbeIdle /\ GuardInit

GuardSpec == GuardStart /\ [][GuardNext]_vars

(* ---------------------------------------------------- scoped_memory_block *)
\* The regions VirtualAlloc can hand out, one block each; 0 is the null
\* address.
BlockAddrs == 1..NBlocks

BlockIds == 1..NBlocks

\* A scoped_memory_block object that does not exist yet.
NoBlock ==
  [state |-> "none", m_block |-> 0, m_size |-> 0, m_allocated |-> FALSE, m_errcode |-> "0"]

\* heap.used: the regions allocated and not released; heap.stray: how many
\* times deallocate was called on a region that was not in use.
BlockInit ==
  /\ heap = [used |-> {}, stray |-> 0]
  /\ blocks = [b \in BlockIds |-> NoBlock]

\* deallocate(address, size): VirtualFree(address, 0, MEM_RELEASE).
deallocate(h, address) ==
  IF address \in h.used THEN [h EXCEPT !.used = @ \ {address}]
  ELSE [h EXCEPT !.stray = @ + 1]

\* scoped_memory_block(size): allocate gives a region the system picks, or
\* fails and the error code is kept.
BlockConstruct(b) ==
  /\ blocks[b].state = "none"
  /\ \/ \E a \in BlockAddrs \ heap.used :
          /\ heap' = [heap EXCEPT !.used = @ \cup {a}]
          /\ blocks' = [blocks EXCEPT ![b] =
               [state |-> "live", m_block |-> a, m_size |-> 1, m_allocated |-> TRUE,
                m_errcode |-> "0"]]
     \/ /\ heap' = heap
        /\ blocks' = [blocks EXCEPT ![b] =
             [state |-> "live", m_block |-> 0, m_size |-> 1, m_allocated |-> FALSE,
              m_errcode |-> "GetLastError"]]
  /\ UNCHANGED <<mem, prot, hookVars, m_callback, original, ghostVars,
                 faultVars, lifeVars, hotVars, scanVars, stepVars, cpuVars, placeVars, probeVars,
                 pages, guards>>

\* ~scoped_memory_block()
BlockDrop(b) ==
  /\ blocks[b].state = "live"
  /\ heap' = IF blocks[b].m_allocated THEN deallocate(heap, blocks[b].m_block) ELSE heap
  /\ blocks' = [blocks EXCEPT ![b].state = "gone"]
  /\ UNCHANGED <<mem, prot, hookVars, m_callback, original, ghostVars,
                 faultVars, lifeVars, hotVars, scanVars, stepVars, cpuVars, placeVars, probeVars,
                 pages, guards>>

\* scoped_memory_block(scoped_memory_block&& rhs)
BlockMoveConstruct(rhs, b) ==
  /\ blocks[rhs].state = "live" /\ blocks[b].state = "none"
  /\ blocks' = [blocks EXCEPT ![b] = blocks[rhs],
                              ![rhs].m_block = 0, ![rhs].m_allocated = FALSE]
  /\ UNCHANGED <<mem, prot, hookVars, m_callback, original, ghostVars,
                 faultVars, lifeVars, hotVars, scanVars, stepVars, cpuVars, placeVars, probeVars,
                 pages, guards, heap>>

\* operator=(scoped_memory_block&& rhs), statement by statement: the
\* address of rhs is taken and 0 left there (on a self-move the address is
\* kept), the other members copied, rhs.m_allocated cleared (rhs may be the
\* object itself); deallocate is not called.
BlockMoveAssign(rhs, b) ==
  /\ blocks[rhs].state = "live" /\ blocks[b].state = "live"
  /\ blocks' = [[blocks EXCEPT ![b] = blocks[rhs]]
                  EXCEPT ![rhs].m_block = IF rhs = b THEN blocks[b].m_block ELSE 0,
                         ![rhs].m_allocated = FALSE]
  /\ UNCHANGED <<mem, prot, hookVars, m_callback, original, ghostVars,
                 faultVars, lifeVars, hotVars, scanVars, stepVars, cpuVars, placeVars, probeVars,
                 pages, guards, heap>>

BlockNext ==
  \/ \E b \in BlockIds : BlockConstruct(b)
  \/ \E b \in BlockIds : BlockDrop(b)
  \/ \E rhs \in BlockIds, b \in BlockIds : BlockMoveConstruct(rhs, b)
  \/ \E rhs \in BlockIds, b \in BlockIds : BlockMoveAssign(rhs, b)

BlockStart == HooksAside /\ PlaceIdle /\ GuardIdle /\ ProbeIdle /\ BlockInit

BlockSpec == BlockStart /\ [][BlockNext]_vars

(* --------------------------------------------------------- find_free_page *)
\* The address space of this section: NGranules units of allocation
\* (dwAllocationGranularity addresses each); address_t and size_t hold
\* 0..WordSpace-1 and their arithmetic is modulo WordSpace.  The first unit
\* lies below lpMinimumApplicationAddress, the last one above
\* lpMaximumApplicationAddress.
WordSpace == NGranules * Granularity

Word(x) == x % WordSpace

MinimumApplicationAddress == Granularity

MaximumApplicationAddress == WordSpace - Granularity - 1

UserGranules == 1..(NGranules - 2)

\* What the system holds at each unit of allocation of the application's
\* range: nothing ("free"), the start of an allocation ("base"), or more of
\* the allocation before it ("more").
MemoryMaps ==
  {m \in [UserGranules -> {"free", "base", "more"}] :
     \A g \in UserGranules : m[g] = "more" => (g > 1 /\ m[g - 1] # "free")}

\* VirtualQuery returns 0 outside the application's range.
VirtualQueryFails(a) == a < MinimumApplicationAddress \/ a > MaximumApplicationAddress

\* mbi.State == MEM_FREE at an address of the application's range.
MemFreeAt(m, a) == m[a \div Granularity] = "free"

\* mbi.AllocationBase of an occupied address.
RECURSIVE AllocationBase(_, _)
AllocationBase(m, g) == IF m[g] = "base" THEN g * Granularity ELSE AllocationBase(m, g - 1)

\* mbi.BaseAddress + mbi.RegionSize of an occupied address: the region
\* reaches to the end of its allocation.
RECURSIVE RegionEnd(_, _)
RegionEnd(m, g) ==
  IF g + 1 \in UserGranules /\ m[g + 1] = "more" THEN RegionEnd(m, g + 1)
  ELSE (g + 1) * Granularity

\* The loop of find_prev_free_page from address a.
RECURSIVE PrevLoop(_, _, _)
PrevLoop(m, a, min_address) ==
  IF a < min_address THEN 0
  ELSE IF VirtualQueryFails(a) THEN 0
  ELSE IF MemFreeAt(m, a) THEN a
  ELSE IF AllocationBase(m, a \div Granularity) < Granularity THEN 0
  ELSE PrevLoop(m, AllocationBase(m, a \div Granularity) - Granularity, min_address)

find_prev_free_page(m, page, min_address) ==
  PrevLoop(m, Word(Word(page - (page % Granularity)) - Granularity), min_address)

\* The loop of find_next_free_page from address a.
RECURSIVE NextLoop(_, _, _)
NextLoop(m, a, max_address) ==
  IF a > max_address THEN 0
  ELSE IF VirtualQueryFails(a) THEN 0
  ELSE IF MemFreeAt(m, a) THEN a
  ELSE LET end == Word(RegionEnd(m, a \div Granularity) + (Granularity - 1))
       IN  NextLoop(m, Word(end - (end % Granularity)), max_address)

find_next_free_page(m, page, max_address) ==
  NextLoop(m, Word(Word(page - (page % Granularity)) + Granularity), max_address)

\* find_free_page(page, range): std::max, std::min and address + range on
\* address_t.
find_free_page(m, page, range) ==
  LET min_address == IF page > range /\ page - range > MinimumApplicationAddress
                     THEN page - range ELSE MinimumApplicationAddress
      max_address == IF Word(page + range) < MaximumApplicationAddress
                     THEN Word(page + range) ELSE MaximumApplicationAddress
      prev == find_prev_free_page(m, page, min_address)
  IN  IF prev = 0 THEN find_next_free_page(m, page, max_address) ELSE prev

\* A memory map, a hint in the application's range and a range.
FindInit ==
  \E m \in MemoryMaps, page \in MinimumApplicationAddress..MaximumApplicationAddress,
     range \in 0..(WordSpace - 1) :
    probe = [op |-> "find_free_page", map |-> m, page |-> page, range |-> range,
             done |-> FALSE, result |-> 0]

FindStart == HooksAside /\ PlaceIdle /\ RaiiIdle /\ FindInit

\* find_free_page(page, range)
Find ==
  /\ probe.op = "find_free_page" /\ ~probe.done
  /\ probe' = [probe EXCEPT !.done = TRUE,
                            !.result = find_free_page(probe.map, probe.page, probe.range)]
  /\ UNCHANGED <<mem, prot, hookVars, m_callback, original, ghostVars,
                 faultVars, lifeVars, hotVars, scanVars, stepVars, cpuVars, placeVars, raiiVars>>

FindSpec == FindStart /\ [][Find]_vars

(* ----------------------------------------------------------- scoped_patch *)
\* A few bytes of data that a patch works on, at addresses 1..PatchCells (0
\* is the null address).  A byte is named by where it comes from: the
\* program's own data, the replacement of a unit, the original a unit was
\* configured with.
OwnByte(a) == <<"own", a>>

ReplacementOf(u, n) == [i \in 1..n |-> <<"replacement", u>>]

ConfiguredOriginalOf(u, n) == [i \in 1..n |-> <<"configured", u>>]

PatchRead(m, a, n) == [i \in 1..n |-> m[a + i - 1]]

PatchWrite(m, a, bytes) ==
  [c \in 1..PatchCells |-> IF c >= a /\ c < a + Len(bytes) THEN bytes[c - a + 1] ELSE m[c]]

\* The units patch_builder can pack: an address or none, a replacement or
\* none, with_original given (with as many bytes as the replacement) or not.
PatchUnits ==
  {[m_address |-> a, m_replacement |-> ReplacementOf(u, n),
    m_original |-> IF given THEN ConfiguredOriginalOf(u, n) ELSE <<>>,
    installed |-> FALSE] :
     u \in 1..NUnits, a \in 0..PatchCells, n \in 0..MaxPatchLen, given \in BOOLEAN}

\* scoped_patch_unit::install on the state st = [mem, units, ok], for unit u.
UnitInstall(st, u) ==
  LET unit == st.units[u]
  IN  IF unit.m_address = 0 \/ unit.m_replacement = <<>> THEN [st EXCEPT !.ok = FALSE]
      ELSE [mem |-> PatchWrite(st.mem, unit.m_address, unit.m_replacement),
            units |-> [st.units EXCEPT
                         ![u].m_original =
                            IF @ = <<>>
                            THEN PatchRead(st.mem, unit.m_address, Len(unit.m_replacement))
                            ELSE @,
                         ![u].installed = TRUE],
            ok |-> TRUE]

\* scoped_patch_unit::remove
UnitRemove(st, u) ==
  LET unit == st.units[u]
  IN  IF unit.m_address = 0 \/ unit.m_original = <<>> THEN [st EXCEPT !.ok = FALSE]
      ELSE [st EXCEPT !.mem = PatchWrite(st.mem, unit.m_address, unit.m_original)]

\* scoped_patch::remove: the units in their order, until one fails.
RECURSIVE RemoveUnits(_, _)
RemoveUnits(st, u) ==
  IF u > Len(st.units) THEN st
  ELSE LET next == UnitRemove(st, u)
       IN  IF next.ok THEN RemoveUnits(next, u + 1) ELSE next

\* scoped_patch::install: the units in their order, until one fails.
RECURSIVE InstallUnits(_, _)
InstallUnits(st, u) ==
  IF u > Len(st.units) THEN st
  ELSE LET next == UnitInstall(st, u)
       IN  IF next.ok THEN InstallUnits(next, u + 1) ELSE next

\* A packed scoped_patch of one to NUnits units whose bytes lie in the data.
PatchInit ==
  \E n \in 1..NUnits : \E us \in [1..n -> PatchUnits] :
    /\ \A u \in 1..n : /\ us[u].m_replacement = ReplacementOf(u, Len(us[u].m_replacement))
                       /\ us[u].m_address + Len(us[u].m_replacement) <= PatchCells + 1
                       /\ Len(us[u].m_original) > 0 =>
                            us[u].m_original = ConfiguredOriginalOf(u, Len(us[u].m_replacement))
    /\ probe = [op |-> "patch", state |-> "packed", given |-> us,
                mem |-> [c \in 1..PatchCells |-> OwnByte(c)], units |-> us, ok |-> TRUE]

PatchStart == HooksAside /\ PlaceIdle /\ RaiiIdle /\ PatchInit

\* scoped_patch::install()
PatchInstall ==
  /\ probe.op = "patch" /\ probe.state \in {"packed", "installed", "removed"}
  /\ LET st == InstallUnits([mem |-> probe.mem, units |-> probe.units, ok |-> TRUE], 1)
     IN  probe' = [probe EXCEPT !.mem = st.mem, !.units = st.units, !.ok = st.ok,
                                !.state = "installed"]
  /\ UNCHANGED <<mem, prot, hookVars, m_callback, original, ghostVars,
                 faultVars, lifeVars, hotVars, scanVars, stepVars, cpuVars, placeVars, raiiVars>>

\* scoped_patch::remove()
PatchRemove ==
  /\ probe.op = "patch" /\ probe.state = "installed"
  /\ LET st == RemoveUnits([mem |-> probe.mem, units |-> probe.units, ok |-> TRUE], 1)
     IN  probe' = [probe EXCEPT !.mem = st.mem, !.units = st.units, !.ok = st.ok,
                                !.state = "removed"]
  /\ UNCHANGED <<mem, prot, hookVars, m_callback, original, ghostVars,
                 faultVars, lifeVars, hotVars, scanVars, stepVars, cpuVars, placeVars, raiiVars>>

\* ~scoped_patch(): remove()
PatchDrop ==
  /\ probe.op = "patch" /\ probe.state \in {"packed", "installed", "removed"}
  /\ LET st == RemoveUnits([mem |-> probe.mem, units |-> probe.units, ok |-> TRUE], 1)
     IN  probe' = [probe EXCEPT !.mem = st.mem, !.units = st.units, !.ok = st.ok,
                                !.state = "gone"]
  /\ UNCHANGED <<mem, prot, hookVars, m_callback, original, ghostVars,
                 faultVars, lifeVars, hotVars, scanVars, stepVars, cpuVars, placeVars, raiiVars>>

PatchNext == PatchInstall \/ PatchRemove \/ PatchDrop

PatchSpec == PatchStart /\ [][PatchNext]_vars

(* ------------------------------------------------ vocabulary of the claims *)
Range(seq) == {seq[i] : i \in 1..Len(seq)}

Reverse(seq) == [i \in 1..Len(seq) |-> seq[(Len(seq) - i) + 1]]

Installed == {h \in Hooks : m_installed[h]}

\* The hooks whose relay a call passes through, in the order it does.
RelayOrder(trace) ==
  LET relays == SelectSeq(trace, LAMBDA e : e[1] = "relay")
  IN [i \in 1..Len(relays) |-> relays[i][2]]

\* The events of the layers of the hooks in seq, one after the other.
RECURSIVE Layers(_)
Layers(seq) ==
  IF seq = <<>> THEN <<>>
  ELSE <<<<"relay", Head(seq)>>>>
       \o (IF m_callback[Head(seq)] THEN <<<<"callback", Head(seq)>>>> ELSE <<>>)
       \o Layers(Tail(seq))

\* A trace without the events of hook h.
Strip(trace, h) == SelectSeq(trace, LAMBDA e : ~(e[1] \in {"relay", "callback"} /\ e[2] = h))

Outermost(h) == RelayOrder(CallTrace) # <<>> /\ RelayOrder(CallTrace)[1] = h

\* The first L bytes of the target, for the prologue length L of hook h.
PrologueIn(bytes, h) == SubSeq(bytes, 1, m_size[h])

LastCall == recent[Len(recent)]

\* The last two successful calls were install() and remove() of one hook.
InstallThenRemove ==
  /\ Len(recent) >= 2
  /\ recent[Len(recent) - 1].op = "install"
  /\ recent[Len(recent)].op = "remove"
  /\ recent[Len(recent) - 1].hook = recent[Len(recent)].hook

\* The last four successful calls were install H1, install H2 and the two
\* removes, and both installs created the codecave of their hook.
TwoInstalledTwoRemoved ==
  Len(recent) = 4 /\ recent[1].path = "fresh" /\ recent[2].path = "fresh"

(* ----------------------------------------------------------------- C1 *)
\* C1 (as stated): two hooks H1, H2 installed in that order and then both
\* removed, in either order: the first L bytes of the target equal the bytes
\* just before H1's install().
C1_Original ==
  Len(recent) = 4 =>
    PrologueIn(TargetBytes(mem), recent[1].hook) = PrologueIn(recent[1].bytes, recent[1].hook)

\* C1 (amended): H1 and H2 installed in that order, each for the first time
\* (the install creates its codecave), and then both removed.  Removed in the
\* order H2, H1 the first L bytes of the target equal the bytes just before
\* H1's install(); removed in the order H1, H2 they equal the bytes just
\* before H2's install() (the jump into H1's codecave, which stays
\* allocated) and differ from the bytes before H1's install().
C1_Theorem ==
  TwoInstalledTwoRemoved =>
    LET h1 == recent[1].hook
        now == PrologueIn(TargetBytes(mem), h1)
    IN IF recent[3].hook = recent[2].hook
         THEN now = PrologueIn(recent[1].bytes, h1)
         ELSE /\ now = PrologueIn(recent[2].bytes, h1)
              /\ now # PrologueIn(recent[1].bytes, h1)
              /\ m_codecave[h1] # 0

\* Both hooks removed, H1 first.
C1_Witness == TwoInstalledTwoRemoved /\ recent[3].hook = recent[1].hook

(* ----------------------------------------------------------------- C2 *)
\* C2 (as stated): a call of the target runs the callbacks of the installed
\* hooks in last-installed-first order, each hook.call running the next inner
\* layer, the innermost the original function.
C2_Original == CallTrace = Layers(Reverse(installOrder)) \o OrigTrace

\* C2 (amended): a call of the target runs the layers of the installed hooks
\* in the reverse of the order in which their codecaves were created (the
\* order of their first installs; a re-install of a soft-removed hook does not
\* move it), each hook.call running the next inner layer, the innermost the
\* original function.
C2_Theorem ==
  CallTrace = Layers(Reverse(SelectSeq(chain, LAMBDA h : m_installed[h]))) \o OrigTrace

\* Two hooks installed, each with a callback.
C2_Witness == Cardinality(Installed) >= 2 /\ \A h \in Installed : m_callback[h]

C4_Original ==
  InstallThenRemove =>
    PrologueIn(TargetBytes(mem), LastCall.hook)
      = PrologueIn(recent[Len(recent) - 1].bytes, LastCall.hook)

\* C4 (amended): install() followed by remove() of a hook, no other hook
\* touching the target in between, leaves the first L bytes of the target
\* equal to the bytes just before install() when that install() created the
\* hook's codecave; after a re-install of a soft-removed hook they are equal
\* exactly when the remove() is a soft removal again.
C4_Theorem ==
  InstallThenRemove =>
    LET same == PrologueIn(TargetBytes(mem), LastCall.hook)
                  = PrologueIn(recent[Len(recent) - 1].bytes, LastCall.hook)
    IN IF recent[Len(recent) - 1].path = "fresh" THEN same
       ELSE same <=> LastCall.path = "soft"

\* A first install and the remove, on a prologue longer than the jump.
C4_Witness ==
  /\ InstallThenRemove
  /\ recent[Len(recent) - 1].path = "fresh"
  /\ m_size[LastCall.hook] > kJumpSize

C6_Theorem ==
  [][\A h \in Hooks :
       (~m_installed[h] /\ m_codecave[h] # 0 /\ m_installed'[h])
         => /\ \A a \in Addrs :
                 mem'[a] # mem[a]
                   => a \in m_codecave[h]..((m_codecave[h] + kUsercodeJumpSize) - 1)
            /\ ReadBytes(mem', m_codecave[h], kUsercodeJumpSize) = m_usercode_jump[h]
            /\ ReadBytes(mem', m_codecave[h], kUsercodeJumpSize)
                 # ReadBytes(mem, m_codecave[h], kUsercodeJumpSize)
            /\ TargetBytes(mem') = TargetBytes(mem)
            /\ LET after == Walk(mem', m_trampoline', m_callback', Target, WalkFuel)
               IN /\ <<"relay", h>> \in Range(after)
                  /\ m_callback[h] => <<"callback", h>> \in Range(after)]_vars

\* A soft-removed hook with a callback was just installed again.
C6_Witness ==
  /\ recent # <<>> /\ LastCall.op = "install" /\ LastCall.path = "reinstall"
  /\ m_installed[LastCall.hook] /\ m_callback[LastCall.hook]

(* ----------------------------------------------------------------- C7 *)
\* C7 (as stated): after any successful install() of a hook H, H is the
\* outermost hook: a call of the target passes through H's relay first.
C7_Original == (recent # <<>> /\ LastCall.op = "install") => Outermost(LastCall.hook)

\* C7 (amended): after a successful install() that creates the codecave of
\* H, H is the outermost hook; after a re-install of a soft-removed H, H is
\* back at its previous place in the chain, outermost exactly when no
\* installed hook has a newer codecave: the chain order is the order of the
\* first installs.
C7_Theorem ==
  (recent # <<>> /\ LastCall.op = "install") =>
    LET h == LastCall.hook
        newer == {g \in Installed :
                    \E i, j \in 1..Len(chain) : chain[i] = h /\ chain[j] = g /\ j > i}
    IN IF LastCall.path = "fresh" THEN Outermost(h)
       ELSE Outermost(h) <=> newer = {}

\* A hook was just installed for the first time on top of an installed hook.
C7_Witness ==
  /\ recent # <<>> /\ LastCall.op = "install" /\ LastCall.path = "fresh"
  /\ Cardinality(Installed) >= 2

(* ----------------------------------------------------------------- C8 *)
\* The absolute destination of the rel32 at target[1..5).
TargetDestination == (Target + kJumpSize) + S32(ReadBytes(mem, Target + 1, 4))

ErrorReturned == ret.error \notin {"none", "Ok", "Crash", "Hang"}

\* bytes are a complete patch: a near JMP or CALL into a codecave, and NOPs
\* behind it.
CompletePatch(bytes) ==
  /\ Len(bytes) >= kJumpSize
  /\ bytes[1] \in {kX86JmpOpcode, kX86CallOpcode}
  /\ restore_absolute_address(S32(SubSeq(bytes, 2, kJumpSize)), Target, kJumpSize) \in Slots
  /\ \A i \in (kJumpSize + 1)..Len(bytes) : bytes[i] = kNopOpcode

(* ----------------------------------------------------------------- C11 *)
\* C11 (as stated): after an install() or remove() call that returned an
\* error, the first L bytes of the target are the original bytes or a complete
\* patch (opcode, rel32 to a codecave, NOP padding), never a mixture.
C11_Original ==
  (ErrorReturned /\ m_target[ret.hook] # 0) =>
    LET bytes == PrologueIn(TargetBytes(mem), ret.hook)
    IN bytes = PrologueIn(original, ret.hook) \/ CompletePatch(bytes)

(* ----------------------------------------------------------------- C12 *)
\* C12 (as stated): an install() or remove() call that returns an error
\* leaves the target bytes, the protection of the target's page and the
\* state of the hook (installed flag, codecave, prologue snapshot, saved
\* jump) as they were before the call.
C12_Original ==
  [][(ret = NoCall /\ ret'.error \notin {"none", "Ok", "Crash", "Hang"}) =>
       /\ TargetBytes(mem') = TargetBytes(mem)
       /\ prot' = prot
       /\ m_installed' = m_installed
       /\ m_codecave' = m_codecave
       /\ m_original_bytes' = m_original_bytes
       /\ m_usercode_jump' = m_usercode_jump]_vars

(* ----------------------------------------------------------------- C13 *)
\* C13 (as stated): when a write to the target fails during install() (the
\* opcode byte, the rel32 operand or the NOP padding), install() returns
\* WriteMemoryError.
C13_Original ==
  (ret.op = "install" /\ ret.fault \in {"opcode", "operand", "fill"}) =>
    ret.error = "WriteMemoryError"

(* ----------------------------------------------------------------- C19 *)
\* C19: install() returns the error of the first of its preconditions that
\* fails, in the order: not installed (AlreadyInstalledError), target set
\* (InvalidAddressError), page of the target executable (NotExecutableError),
\* L >= 5 (NotEnoughSpaceError), protection guard valid
\* (ProtectViolationError); it returns none of the five when all hold.
C19_Theorem ==
  [][(ret = NoCall /\ ret'.op = "install" /\ ret'.error \notin {"Crash", "Hang"}) =>
       LET h == ret'.hook
       IN ret'.error =
            IF m_installed[h] THEN "AlreadyInstalledError"
            ELSE IF m_target[h] = 0 THEN "InvalidAddressError"
            ELSE IF ~is_executable(prot) THEN "NotExecutableError"
            ELSE IF m_size[h] < kJumpSize THEN "NotEnoughSpaceError"
            ELSE IF ret'.fault = "protect" THEN "ProtectViolationError"
            ELSE IF ret'.error \in {"AlreadyInstalledError", "InvalidAddressError",
                                    "NotExecutableError", "NotEnoughSpaceError",
                                    "ProtectViolationError"}
              THEN "none"
            ELSE ret'.error]_vars

\* install() of an installed hook on a page that is no longer executable and
\* whose protection cannot be changed: two later preconditions fail too.
C19_Witness ==
  /\ ret.op = "install"
  /\ ret.error = "AlreadyInstalledError"
  /\ ret.fault = "protect"
  /\ ~is_executable(prot)

(* ----------------------------------------------------------------- C14 *)
\* C14 (as stated): once a hook has been destroyed its codecave is no longer
\* allocated: every allocated page is the codecave of a hook that exists.
C14_Original ==
  \A b \in Slots : Mapped(mem, b) => \E h \in Hooks : Alive(h) /\ m_codecave[h] = b

HardRemoved(h) ==
  /\ m_codecave'[h] = 0
  /\ ~Mapped(mem', m_codecave[h])
  /\ PrologueIn(TargetBytes(mem'), h) = m_original_bytes[h]

SoftRemoved(h) ==
  /\ m_codecave'[h] = m_codecave[h]
  /\ ReadBytes(mem', m_codecave[h], kUsercodeJumpSize)
       = [i \in 1..kUsercodeJumpSize |-> kNopOpcode]
  /\ TargetBytes(mem') = TargetBytes(mem)

\* C16 (as stated): remove() of an installed hook is a hard removal (the
\* snapshot is copied onto the target, the codecave is freed) exactly when the
\* hook is the outermost one, the first a call of the target reaches; for
\* every other installed hook it is a soft removal (the leading 5 bytes of
\* the codecave become NOPs, codecave and target stay).
C16_Original ==
  [][\A h \in Hooks :
       (m_installed[h] /\ ~m_installed'[h]) =>
         IF Outermost(h) THEN HardRemoved(h) ELSE SoftRemoved(h)]_vars

\* C16 (amended): remove() of an installed hook is a hard removal exactly
\* when the jump at the target leads to the codecave of that hook, and a
\* soft removal otherwise.  A hook that is not the outermost one is never
\* the one the target leads to, so hard removal happens only to the
\* outermost hook; the outermost hook itself is removed softly when the
\* target leads to the transparent codecave of a soft-removed hook in front
\* of it.
C16_Theorem ==
  [][\A h \in Hooks :
       (m_installed[h] /\ ~m_installed'[h]) =>
         /\ IF TargetDestination = m_codecave[h] THEN HardRemoved(h) ELSE SoftRemoved(h)
         /\ TargetDestination = m_codecave[h] => Outermost(h)]_vars

\* The only installed hook has been removed softly: the target still leads
\* to the codecave of a hook that was soft-removed before.
C16_Witness ==
  /\ recent # <<>>
  /\ LastCall.op = "remove"
  /\ LastCall.path = "soft"
  /\ Installed = {}

(* ----------------------------------------------------------------- C17 *)
\* C17 (as stated): with one thread calling the hooked function, also from
\* inside a call of it (from the callback, or by recursion of the original),
\* every return goes to the site of its own call.
C17_Original ==
  \A t \in Threads :
    (\A u \in Threads \ {t} : at[u].in = "main") => at[t].in # "lost"

(* ----------------------------------------------------------------- C18 *)
\* C18 (as stated): with threads calling the hooked function concurrently,
\* none of them from inside a call of it, every thread returns to the site of
\* its own call, however the instructions of the codecave interleave.
C18_Original == ~reentered => \A t \in Threads : at[t].in # "lost"

(* ----------------------------------------------------------------- C20 *)
\* C20 (as stated): when an instruction of the prologue does not decode
\* (length 0), configuring the hook ends with an error: the instruction is
\* not decoded again and again.
C20_Original == \A h \in Hooks : scan[h].spins < 2

(* ----------------------------------------------------------------- C21 *)
\* The function began with a prologue of L bytes, for the L of hook h, that
\* holds a short jump (EB rel8).
ShortJumpInPrologue(h) ==
  /\ m_target[h] # 0
  /\ \E a \in InsnStarts(InitMem(original), m_target[h], m_size[h]) : original[(a - Target) + 1] = 235

\* C21 (as stated): when a short-form (rel8) jump is among the first L bytes
\* of the target, install() fails (NotEnoughSpace): the hook is not installed
\* and the target is not patched.
C21_Original ==
  \A h \in Hooks :
    ShortJumpInPrologue(h) =>
      ~m_installed[h] /\ TargetBytes(mem) = TargetBytes(InitMem(original))

(* ----------------------------------------------------------------- C22 *)
\* The code at t reproduces the instructions of the size bytes of code at a
\* in the image src, one by one: a relative instruction has the same absolute
\* destination (a near CALL stays a CALL, a jump is a near JMP), any other
\* instruction the same bytes; behind them stands a near JMP to back.
RECURSIVE Reproduces(_, _, _, _, _, _)
Reproduces(m, t, src, a, size, back) ==
  LET copy == disassemble(m, t)
      insn == disassemble(src, a)
  IN IF size <= 0
       THEN copy.opcode = kX86JmpOpcode /\ abs(copy, t) = back
       ELSE /\ insn.length > 0
            /\ copy.length > 0
            /\ IF insn.relative
                 THEN /\ copy.opcode = (IF insn.opcode = kX86CallOpcode THEN kX86CallOpcode
                                        ELSE kX86JmpOpcode)
                      /\ abs(copy, t) = abs(insn, a)
                 ELSE ReadBytes(m, t, copy.length) = ReadBytes(src, a, insn.length)
            /\ Reproduces(m, t + copy.length, src, a + insn.length, size - insn.length, back)

\* C22 (as stated): the trampoline in the codecave of a hook reproduces,
\* instruction by instruction, all of the first L bytes found at the target
\* when the hook was first installed (its snapshot), each CALL/JMP with its
\* absolute destination unchanged, and ends with a JMP to target + L.
C22_Original ==
  \A h \in Hooks :
    (m_codecave[h] # 0 /\ m_original_bytes[h] # None) =>
      Reproduces(mem, m_codecave[h] + kOffsetToUserCode,
                 Poke(mem, m_target[h], m_original_bytes[h]), m_target[h], m_size[h],
                 m_target[h] + m_size[h])

(* ----------------------------------------------------------------- C23 *)
\* A successful install() of hook h on a target that begins with a near CALL.
InstallsOnCall(h) == ~m_installed[h] /\ m_installed'[h] /\ mem[m_target[h]] = kX86CallOpcode

\* The step keeps the opcode byte of the target, stores the destination the
\* CALL had in m_trampoline of hook h, makes the CALL lead to the codecave of
\* h, and changes no target byte but those of the rel32.
CallRerouted(h) ==
  /\ mem'[m_target[h]] = kX86CallOpcode
  /\ m_trampoline'[h]
       = restore_absolute_address(S32(ReadBytes(mem, m_target[h] + 1, 4)), m_target[h], kJumpSize)
  /\ restore_absolute_address(S32(ReadBytes(mem', m_target[h] + 1, 4)), m_target[h], kJumpSize)
       = m_codecave'[h]
  /\ \A a \in TargetRange :
       mem'[a] # mem[a] => a \in (m_target[h] + 1)..(m_target[h] + 4)

\* C23 (as stated): when the first byte at the target is a near CALL (E8) at
\* install time, install() leaves the opcode byte unchanged, stores the
\* absolute destination of the call as the trampoline of the hook and
\* rewrites only the rel32, so that the call reaches the codecave of the hook.
C23_Original == [][\A h \in Hooks : InstallsOnCall(h) => CallRerouted(h)]_vars

\* C23 (amended): when the first byte at the target is a near CALL (E8), a
\* first install() of a hook (one that creates its codecave) leaves the
\* opcode byte unchanged, stores the absolute destination of the call as the
\* trampoline of the hook and rewrites only the rel32, so that the call
\* reaches the codecave of the hook; a re-install of a soft-removed hook
\* writes nothing to the target and keeps the trampoline stored by the first
\* install.
C23_Theorem ==
  [][\A h \in Hooks :
       InstallsOnCall(h) =>
         IF m_codecave[h] = 0 THEN CallRerouted(h)
         ELSE /\ TargetBytes(mem') = TargetBytes(mem)
              /\ m_trampoline'[h] = m_trampoline[h]
              /\ m_trampoline'[h]
                   # restore_absolute_address(S32(ReadBytes(mem, m_target[h] + 1, 4)),
                                              m_target[h], kJumpSize)]_vars

\* A hook was just installed for the first time on a CALL that led to the
\* codecave of another installed hook.
C23_Witness ==
  /\ recent # <<>> /\ LastCall.op = "install" /\ LastCall.path = "fresh"
  /\ LastCall.bytes[1] = kX86CallOpcode
  /\ Cardinality(Installed) >= 2
  /\ m_trampoline[LastCall.hook] \in Slots

(* ----------------------------------------------------------------- C24 *)
\* The statements done so far by the install() in progress, flushes left out.
Done == SelectSeq(ins.log, LAMBDA e : e # "flush")

IsPrefix(s, t) == Len(s) <= Len(t) /\ SubSeq(t, 1, Len(s)) = s

\* C24: during a first install() the prologue is snapshotted before any
\* byte of the target is modified (the snapshot holds the bytes found when
\* the call began), the target is then written in the order opcode byte,
\* rel32 operand, NOP padding (a write that is not due is left out), and each
\* write is followed by a flush of the instruction cache over what it wrote.
C24_Theorem ==
  ~Idle =>
    LET h == ins.hook
        order == SelectSeq(<<"snapshot", "opcode", "operand", "pad">>,
                           LAMBDA e : e = "snapshot"
                                      \/ Written(e, h) # {}
                                      \/ e \in Range(Done))
    IN /\ IsPrefix(Done, order)
       /\ "snapshot" \notin Range(Done) => TargetBytes(mem) = ins.before
       /\ "snapshot" \in Range(Done) => m_original_bytes[h] = PrologueIn(ins.before, h)
       /\ \A a \in TargetRange :
            mem[a] # ins.before[(a - Target) + 1] =>
              \E e \in Range(Done) :
                a \in (CASE e = "opcode" -> {m_target[h]}
                         [] e = "operand" -> (m_target[h] + 1)..(m_target[h] + 4)
                         [] e = "pad" -> (m_target[h] + kJumpSize)..((m_target[h] + m_size[h]) - 1)
                         [] OTHER -> {})
       /\ \A i \in 1..Len(ins.log) :
            ins.log[i] \in {"opcode", "operand", "pad"} =>
              i < Len(ins.log) /\ ins.log[i + 1] = "flush"
       /\ ins.dirty = {}

\* A first install() on a prologue longer than the jump has made all three
\* writes and is about to return.
C24_Witness ==
  /\ ins.step = Len(InstallSteps) + 1
  /\ Done = <<"snapshot", "opcode", "operand", "pad">>
  /\ mem[Target + kJumpSize] = kNopOpcode

(* ----------------------------------------------------------------- C25 *)
\* C25 (as stated): for every 32-bit convention and for both kinds of
\* return, at the entry of the relay the stack and the registers hold the
\* argument layout of the relay: the return-slot pointer first when there is
\* one, then the hook pointer, then the original arguments (the object of a
\* thiscall function behind the hook pointer), with a return address on top.
C25_Original ==
  (cpu.pc > 0 /\ ~InPreamble) =>
    LET relay == AtRelay(cpu.conv, cpu.kind, cpu.n, cpu.slot)
    IN /\ cpu.stack = relay.stack
       /\ relay.ecx \notin {Unread, Free} => cpu.ecx = relay.ecx
       /\ relay.edx \notin {Unread, Free} => cpu.edx = relay.edx

(* ----------------------------------------------------------------- C26 *)
\* C26 (as stated): every codecave is allocated within 2 GiB of the target
\* of its hook (find_free_page(target, 2^31) is the placement hint), so that
\* the rel32 written at the target satisfies target + 5 + rel32 = codecave
\* entry without truncation.
C26_Original ==
  /\ place.step \in {"allocated", "patched"} => Within2GiB(place.cave, place.target)
  /\ place.step = "patched" => JumpDestination(place.target, place.rel) = place.cave

\* C26 (amended): install() allocates the codecave with allocate(size), which
\* passes no address to the system: the page may be anywhere, also 2 GiB or
\* more away from the target; find_free_page is not used.  In the 32-bit
\* address arithmetic of the hook engine the rel32 written at the target is
\* the whole difference codecave - target - 5 (nothing is cut off), and
\* target + 5 + rel32 is the codecave entry modulo 2^32 wherever the page is.
C26_Theorem ==
  place.step = "patched" =>
    /\ place.rel.hi \in 0..(Half - 1) /\ place.rel.lo \in 0..(Half - 1)
    /\ JumpDestination(place.target, place.rel) = place.cave

\* The rel32 is written for a codecave 2 GiB or more above its target.
C26_Witness ==
  /\ place.step = "patched"
  /\ ~Within2GiB(place.cave, place.target)
  /\ Below32(place.target, place.cave)

(* ----------------------------------------------------------------- C27 *)
\* Guard g is the only scoped_protect there has been.
OnlyGuard(g) == \A o \in GuardIds \ {g} : guards[o].state = "none"

\* C27: for a scoped_protect(a, k, n) that was constructed valid, every page
\* of [a, a+n) has a protection that includes k until the guard is dropped,
\* and after the drop every page of the range has the protection it had
\* before the construction.
C27_Original ==
  \A g \in GuardIds : (OnlyGuard(g) /\ guards[g].changed /\ guards[g].m_protect # "None") =>
    /\ guards[g].state = "live" =>
         \A p \in guards[g].range : Includes(get_protect(pages, p), guards[g].kind)
    /\ guards[g].state = "gone" =>
         \A p \in guards[g].range : get_protect(pages, p) = guards[g].prior[p]

(* ----------------------------------------------------------------- C28 *)
\* C28: a scoped_protect reports valid() = false if and only if its initial
\* protection change failed, and when it is released the prior protection is
\* restored if and only if that change succeeded, whatever the prior
\* protection of the page was.
C28_Original ==
  \A g \in GuardIds : OnlyGuard(g) =>
    /\ guards[g].state = "live" => (~valid(guards[g]) <=> ~guards[g].changed)
    /\ guards[g].state = "gone" => (guards[g].restored <=> guards[g].changed)

C30_Original ==
  /\ \A b \in BlockIds : (blocks[b].state = "live" /\ blocks[b].m_allocated) =>
       blocks[b].m_block \in heap.used
  /\ heap.stray = 0
  /\ (\A b \in BlockIds : blocks[b].state = "gone") => heap.used = {}

(* ----------------------------------------------------------------- C31 *)
\* The free, granularity-aligned pages of the application's range within
\* [page - range, page + range].
FreePagesAround(m, page, range) ==
  {g * Granularity : g \in {u \in UserGranules : m[u] = "free"}} \cap
  {a \in 0..(WordSpace - 1) : page - range <= a /\ a <= page + range}

\* C31: find_free_page(hint, range) returns zero only if no free,
\* granularity-aligned page exists within [hint - range, hint + range];
\* otherwise it returns a free page that is aligned to the allocation
\* granularity and lies inside that interval, one below the hint when such
\* a page exists.
C31_Original ==
  (probe.op = "find_free_page" /\ probe.done) =>
    LET free == FreePagesAround(probe.map, probe.page, probe.range)
    IN  /\ probe.result = 0 => free = {}
        /\ probe.result # 0 => probe.result \in free
        /\ (\E a \in free : a < probe.page) => (probe.result # 0 /\ probe.result < probe.page)

(* ----------------------------------------------------------------- C32 *)
\* The protection constants of the system met in the model: the cases of the
\* two conversions, two constants they do not know, and 0.
SystemConstants ==
  {"PAGE_NOACCESS", "PAGE_READONLY", "PAGE_READWRITE", "PAGE_EXECUTE", "PAGE_EXECUTE_READ",
   "PAGE_EXECUTE_READWRITE", "PAGE_WRITECOPY", "PAGE_EXECUTE_WRITECOPY", NoConstant}

\* A constant the protection kinds can represent: it is not converted to None.
Representable(c) == to_protection_constant(c) # "None"

UnitsOver(c) ==
  {u \in 1..Len(probe.units) :
     /\ probe.units[u].installed
     /\ c >= probe.units[u].m_address
     /\ c < probe.units[u].m_address + Len(probe.units[u].m_replacement)}

\* C33: when a scoped_patch goes out of scope, every location it patched
\* holds its original bytes again (the builder-configured original when one
\* was given, otherwise the bytes that were there at the first install), for
\* patch groups of any number of units.  Byte by byte: a byte patched only by
\* units without a configured original is the program's own byte again, and
\* a byte patched by one unit with a configured original is that original.
C33_Original ==
  (probe.op = "patch" /\ probe.state = "gone") =>
    \A c \in 1..PatchCells :
      /\ (UnitsOver(c) # {} /\ \A u \in UnitsOver(c) : probe.given[u].m_original = <<>>)
           => probe.mem[c] = OwnByte(c)
      /\ \A u \in UnitsOver(c) : (UnitsOver(c) = {u} /\ probe.given[u].m_original # <<>>)
           => probe.mem[c] = <<"configured", u>>

(* ------------------------------------------ calls after any lifecycle *)
\* The events of a call that entered unmapped memory or undecodable bytes.
Faults(trace) == SelectSeq(trace, LAMBDA e : e[1] = "fault")

C35_Original ==
  \A h \in Hooks :
    /\ m_installed[h] => (m_codecave[h] # 0 /\ m_original_bytes[h] # None)
    /\ (m_codecave[h] # 0 /\ ~m_installed[h]) => m_usercode_jump[h] # None

(* ------------------------------------- hook::target on a configured hook *)
\* Code of the hooked function with a prologue of 5 and of 6 bytes.
RetargetCodes == {<<139, 255, 85, 139, 236>>, <<85, 139, 236, 131, 236, 85>>}

\* Hook objects made by hook(), on a function with one of the RetargetCodes.
RetargetInit ==
  /\ \E code \in RetargetCodes : /\ original = code
                                 /\ mem = InitMem(code)
  /\ prot = "ReadExecute"
  /\ m_target = [h \in Hooks |-> 0]
  /\ m_size = [h \in Hooks |-> 0]
  /\ m_installed = [h \in Hooks |-> FALSE]
  /\ m_trampoline = [h \in Hooks |-> 0]
  /\ m_original_bytes = [h \in Hooks |-> None]
  /\ m_usercode_jump = [h \in Hooks |-> None]
  /\ m_codecave = [h \in Hooks |-> 0]
  /\ m_callback = [h \in Hooks |-> FALSE]
  /\ recent = <<>>
  /\ installOrder = <<>>
  /\ chain = <<>>
  /\ AuxInit

\* hook::target(addr) on a hook that has a target already, installed or
\* not, with the address of the same function: m_target is assigned and
\* get_at_least_n_bytes is entered on the bytes the target holds now.
Retarget(h) ==
  /\ NoScan
  /\ m_target[h] # 0
  /\ m_target' = [m_target EXCEPT ![h] = Target]
  /\ scan' = [scan EXCEPT ![h] = [state |-> "scanning", size |-> 0, spins |-> 0]]
  /\ UNCHANGED <<mem, prot, m_size, m_installed, m_trampoline, m_original_bytes,
                 m_usercode_jump, m_codecave, m_callback, original, ghostVars, nonScanAux>>

RetargetNext ==
  \E h \in Hooks :
    \/ SetTarget(h)
    \/ Retarget(h)
    \/ Decode(h)
    \/ NoScan /\ Install(h)
    \/ NoScan /\ Remove(h)

RetargetSpec == RetargetInit /\ [][RetargetNext]_vars

\* The step is remove() of hook h on the path of unload_hook.
UnloadStep(h) == m_installed[h] /\ m_codecave[h] # 0 /\ m_codecave'[h] = 0

\* C36: for any sequence of target(addr), install() and remove() calls on a
\* hook, remove() writes the prologue back at the address and with the length
\* that the install() before it patched (the length of the snapshot taken
\* then), also when target(addr) was called while the hook was installed.
C36_Original ==
  [][\A h \in Hooks :
       UnloadStep(h) =>
         /\ m_size[h] = Len(m_original_bytes[h])
         /\ ReadBytes(mem', m_target[h], Len(m_original_bytes[h])) = m_original_bytes[h]]_vars

(* ------------------------------------------- the end of the prologue walk *)
\* The thread inside get_at_least_n_bytes keeps running: an iteration of its
\* loop that can be taken is taken.
ScanLiveSpec == ScanSpec /\ \A h \in Hooks : WF_vars(Decode(h))

ImageLen == 3

MaxPattern == 2

ImageBytes == {65, 66}

Images == [1..ImageLen -> ImageBytes]

\* signature_base: pattern and mask of the same length (basic_signature and
\* ida_signature push to both at once); a byte that is not masked is 0.
Signatures ==
  UNION {{[pattern |-> [i \in 1..n |-> IF mask[i] THEN bytes[i] ELSE 0], mask |-> mask] :
            bytes \in [1..n -> ImageBytes], mask \in [1..n -> BOOLEAN]} : n \in 0..MaxPattern}

\* The loops of scanner::scan from `current` on: the outer loop steps through
\* [current, end), the inner loop compares the byte at `current` with every
\* masked byte of the pattern.  The result is the address returned (0: null)
\* and the addresses that were read.
RECURSIVE ScanFrom(_, _, _, _, _)
ScanFrom(image, current, end, signature, reads) ==
  IF ~(current < end) THEN [result |-> 0, reads |-> reads]
  ELSE LET masked == {i \in 1..Len(signature.pattern) : signature.mask[i]}
           match == \A i \in masked : image[current] = signature.pattern[i]
           seen == IF masked = {} THEN reads ELSE reads \cup {current}
       IN IF match THEN [result |-> current, reads |-> seen]
          ELSE ScanFrom(image, current + 1, end, signature, seen)

\* scanner::scan(signature) of a scanner with m_start and m_end.
scanner_scan(image, m_start, m_end, signature) ==
  IF m_start = 0 \/ m_end = 0 THEN [result |-> 0, reads |-> {}]
  ELSE ScanFrom(image, m_start, m_end, signature, {})

\* A scanner of the image at addresses 1..ImageLen, or one whose initialize
\* failed (m_start and m_end null), and a signature.
ScannerInit ==
  \E image \in Images, signature \in Signatures, initialized \in BOOLEAN :
    probe = [op |-> "scan", done |-> FALSE, image |-> image, signature |-> signature,
             m_start |-> IF initialized THEN 1 ELSE 0,
             m_end |-> IF initialized THEN 1 + ImageLen ELSE 0,
             result |-> 0, reads |-> {}]

ScannerStart == HooksAside /\ PlaceIdle /\ RaiiIdle /\ ScannerInit

ScannerScan ==
  /\ probe.op = "scan" /\ ~probe.done
  /\ LET r == scanner_scan(probe.image, probe.m_start, probe.m_end, probe.signature)
     IN probe' = [probe EXCEPT !.done = TRUE, !.result = r.result, !.reads = r.reads]
  /\ UNCHANGED <<mem, prot, hookVars, m_callback, original, ghostVars,
                 faultVars, lifeVars, hotVars, scanVars, stepVars, cpuVars, placeVars, raiiVars>>

ScannerSpec == ScannerStart /\ [][ScannerScan]_vars

\* The signature matches the image at address a: every masked pattern byte
\* lies below end and equals the image byte at the same offset from a.
MatchesAt(image, end, signature, a) ==
  \A i \in 1..Len(signature.pattern) :
    signature.mask[i] => (a + (i - 1) < end /\ image[a + (i - 1)] = signature.pattern[i])

\* C38: scan returns the lowest address in [start, end) at which every masked
\* pattern byte equals the image byte at the same offset, reads no byte at
\* or beyond end, and returns null when there is no such address.
C38_Original ==
  (probe.op = "scan" /\ probe.done /\ probe.m_start # 0) =>
    LET hits == {a \in probe.m_start..(probe.m_end - 1) :
                   MatchesAt(probe.image, probe.m_end, probe.signature, a)}
    IN /\ probe.result = 0 <=> hits = {}
       /\ probe.result # 0 => (probe.result \in hits /\ \A a \in hits : probe.result <= a)
       /\ \A a \in probe.reads : a < probe.m_end

(* ----------------------------------------------------------------- C39 *)
\* What the destructor of a valid guard will pass to set_protect.
PendingRestore(g) == <<g.m_address, g.m_size, g.m_protect>>

\* C39: no pending restore is lost and none is made up, also when a guard is
\* move-assigned onto a live, valid one: after every step the restore a valid
\* guard was holding has been carried out by its destructor or is held by a
\* live guard, and a destructor that restores does so on the range, and with
\* the prior protection, of the change its guard (or the guard it was moved
\* from) made.
C39_Original ==
  [][\A g \in GuardIds :
       (guards[g].state = "live" /\ valid(guards[g])) =>
         /\ \/ guards'[g].state = "gone" /\ guards'[g].restored
            \/ \E o \in GuardIds : /\ guards'[o].state = "live"
                                   /\ PendingRestore(guards'[o]) = PendingRestore(guards[g])
         /\ guards'[g].state = "gone" =>
              /\ PageRange(guards[g].m_address, guards[g].m_size) = guards[g].range
              /\ guards[g].m_protect = guards[g].prior[guards[g].m_address]]_vars

====
